---- MODULE Spec2Model ----
(***************************************************************************)
(* Restaurant table booking: the booking store, the conflict engine and    *)
(* the booking lifecycle of BookingBackend (src/backend.py), with the      *)
(* Booking entity (src/models/booking.py), Table.can_accommodate           *)
(* (src/models/tables.py) and the connection state of PostgreSQLDriver     *)
(* (src/postgres_driver.py).                                               *)
(*                                                                         *)
(* Units.  A calendar date is a day number (1, 2, ...), a time of day is   *)
(* the number of minutes since 00:00, duration_hours is a whole number of  *)
(* hours (fractional durations are outside the model), and a timestamp is  *)
(* the reading of a logical clock.  datetime.combine(date, time) is the    *)
(* minute date * 1440 + time.                                              *)
(***************************************************************************)
EXTENDS Integers, Sequences, FiniteSets, TLC

VARIABLES
    users,      \* table users: id -> [name, phone]
    tables,     \* table tables: id -> [number, capacity, location, is_active]
    bookings,   \* table bookings: id -> row
    nextId,     \* the bookings id serial
    nextUserId, \* the users id serial
    nextTableId, \* the tables id serial
    connected,  \* driver.connection is set and answers SELECT 1
    now,        \* the store's CURRENT_TIMESTAMP
    pc,         \* per client: position inside a create_booking call
    pending,    \* per client: the request of the create_booking in progress
    driver,     \* the connection: its autocommit flag, its uncommitted writes
    cli,        \* BookingCLI: position of run(), current_user
    last        \* the call that has just returned: its arguments and result

vars ==
    <<users, tables, bookings, nextId, nextUserId, nextTableId, connected, now,
      pc, pending, driver, cli, last>>

----------------------------------------------------------------------------
(* Bounds *)

MaxBookings == 2    \* ids the serial hands out
MaxClock == 1       \* readings of the logical clock: 0..MaxClock
MaxUsers == 3       \* ids the users serial hands out
MaxTables == 4      \* ids the tables serial hands out

----------------------------------------------------------------------------
(* Program constants *)

DefaultDuration == 2
None == -1          \* an unset Optional date or time
MinutesPerHour == 60
MinutesPerDay == 1440

PENDING == "pending"
CONFIRMED == "confirmed"
CANCELLED == "cancelled"
COMPLETED == "completed"
BookingStatus == {PENDING, CONFIRMED, CANCELLED, COMPLETED}

----------------------------------------------------------------------------
(* Inputs *)

HM(h, m) == h * MinutesPerHour + m

\* The arguments of create_booking; special_requests has its default "".
Req(u, t, d, tm, dur, g) ==
    [user_id |-> u, table_id |-> t, booking_date |-> d, booking_time |-> tm,
     duration_hours |-> dur, guests_count |-> g, special_requests |-> ""]

NoReq == Req(0, 0, None, None, 0, 0)

\* Requests that pass every check on an empty store: user 1, tables 1 and 2.
Slots ==
    { Req(1, 1, 1, HM(19, 0), 2, 2),     \* 19:00-21:00
      Req(1, 1, 1, HM(20, 30), 1, 2),    \* 20:30-21:30
      Req(1, 1, 1, HM(20, 59), 2, 2),    \* 20:59-22:59
      Req(1, 1, 1, HM(21, 0), 1, 2),     \* 21:00-22:00
      Req(1, 2, 1, HM(19, 0), 2, 2),     \* another table
      Req(1, 1, 2, HM(19, 0), 2, 2) }    \* another date

\* Requests that one of the checks before the conflict query rejects.
BadRequests ==
    { Req(2, 1, 1, HM(19, 0), 2, 2),     \* no such user
      Req(1, 4, 1, HM(19, 0), 2, 2),     \* no such table
      Req(1, 3, 1, HM(19, 0), 2, 2),     \* inactive table
      Req(1, 1, 1, HM(19, 0), 2, 5),     \* more guests than seats
      Req(1, 1, 1, HM(19, 0), 0, 2),     \* zero duration
      Req(1, 1, 1, HM(19, 0), 2, 0),     \* no guests
      Req(1, 1, None, HM(19, 0), 2, 2),  \* no date
      Req(2, 4, 1, HM(19, 0), 0, 9),     \* no such user, no such table
      Req(1, 4, 1, HM(19, 0), 0, 9),     \* no such table, invalid fields
      Req(1, 2, 1, HM(19, 0), 0, 3),     \* more guests than seats, invalid
      Req(1, 3, 1, HM(19, 0), 2, 5) }    \* inactive table, too many guests

Requests == Slots \cup BadRequests

BookingIds == 1..MaxBookings

Clients == {1, 2}

\* The store calls of one operation that may raise psycopg2.Error.
FaultPoints == {"lookup", "conflicts", "write"}
NoFault == {}

----------------------------------------------------------------------------
(* Booking entity: src/models/booking.py *)

\* Variant: the duration is not part of the validity predicate.
is_valid_any_duration(b) ==
    /\ b.user_id > 0
    /\ b.table_id > 0
    /\ b.booking_date # None
    /\ b.booking_time # None
    /\ b.guests_count > 0

is_valid(b) ==
    /\ b.user_id > 0
    /\ b.table_id > 0
    /\ b.booking_date # None
    /\ b.booking_time # None
    /\ b.duration_hours > 0
    /\ b.guests_count > 0

is_active(b) == b.status \in {PENDING, CONFIRMED}

\* Variant: COMPLETED is forgotten in the list of can_be_cancelled.
can_be_cancelled_not_cancelled(b) == b.status # CANCELLED

can_be_cancelled(b) == b.status \in {PENDING, CONFIRMED}

\* float(self.duration_hours) if self.duration_hours else 2.0
duration_float(b) ==
    IF b.duration_hours # 0 THEN b.duration_hours ELSE DefaultDuration

start_datetime(b) == b.booking_date * MinutesPerDay + b.booking_time

end_datetime(b) == start_datetime(b) + duration_float(b) * MinutesPerHour

\* Variant: one comparison only, the candidate ends after the other starts.
is_conflicting_with_one_sided(self, other) ==
    IF self.table_id # other.table_id \/ ~is_active(self) \/ ~is_active(other)
    THEN FALSE
    ELSE IF self.booking_date # other.booking_date
    THEN FALSE
    ELSE ~(end_datetime(self) <= start_datetime(other))

\* Variant: closed intervals, < in the place of <=.
is_conflicting_with_closed(self, other) ==
    IF self.table_id # other.table_id \/ ~is_active(self) \/ ~is_active(other)
    THEN FALSE
    ELSE IF self.booking_date # other.booking_date
    THEN FALSE
    ELSE ~(end_datetime(self) < start_datetime(other)
           \/ end_datetime(other) < start_datetime(self))

is_conflicting_with(self, other) ==
    IF self.table_id # other.table_id \/ ~is_active(self) \/ ~is_active(other)
    THEN FALSE
    ELSE IF self.booking_date # other.booking_date
    THEN FALSE
    ELSE ~(end_datetime(self) <= start_datetime(other)
           \/ end_datetime(other) <= start_datetime(self))

\* BookingStatus(data['status']), falling back to PENDING
status_from_value(v) == IF v \in BookingStatus THEN v ELSE PENDING

from_dict(row) == [row EXCEPT !.status = status_from_value(row.status)]

----------------------------------------------------------------------------
(* User entity: src/models/users.py *)

\* str.strip() on the strings of the model: "" and " " are blank.
strip(s) == IF s \in {"", " "} THEN "" ELSE s

User_is_valid(u) == strip(u.name) # "" /\ strip(u.phone) # ""

----------------------------------------------------------------------------
(* Table entity: src/models/tables.py *)

Table_is_valid(t) ==
    t.number > 0 /\ t.capacity > 0 /\ strip(t.location) # ""

can_accommodate(t, guests_count) == t.is_active /\ guests_count <= t.capacity

----------------------------------------------------------------------------
(* Serialization of the entities: to_dict / from_dict of Booking, User and *)
(* Table.  A dict is a function from its keys; a key whose value is None   *)
(* is left out (from_dict reads these keys with data.get() and a truth     *)
(* test only).  The text isoformat() makes of a date, time or datetime v   *)
(* is [iso |-> v].                                                         *)

\* None where a string or an object is expected.
PyNone == [none |-> TRUE]

isoformat(v) == [iso |-> v]

fromisoformat(s) == s.iso

\* The dict d without the keys of ks.
without(d, ks) == [k \in DOMAIN d \ ks |-> d[k]]

\* data.get(k) is truthy, for a key that holds the text of a date, time or
\* datetime (never empty) or None.
has_value(d, k) == k \in DOMAIN d /\ d[k] # PyNone

\* data.get(k) is truthy, for a key that holds a str: there and not empty.
has_text(d, k) == k \in DOMAIN d /\ d[k] # ""

\* The date, time and datetime keys of from_dict, for values that are strings.
parsed(d, k, default) ==
    IF has_value(d, k) THEN fromisoformat(d[k]) ELSE default

User_to_dict(u) ==
    [id |-> u.id, name |-> u.name, phone |-> u.phone,
     created_at |-> IF u.created_at # None THEN isoformat(u.created_at)
                    ELSE PyNone]

\* User.__post_init__ puts datetime.now() in a created_at that is None.
User_from_dict(d, clock) ==
    [id |-> IF "id" \in DOMAIN d THEN d.id ELSE None,
     name |-> IF "name" \in DOMAIN d THEN d.name ELSE "",
     phone |-> IF "phone" \in DOMAIN d THEN d.phone ELSE "",
     created_at |-> parsed(d, "created_at", clock)]

Table_to_dict(t) ==
    [id |-> t.id, number |-> t.number, capacity |-> t.capacity,
     location |-> t.location, is_active |-> t.is_active,
     created_at |-> IF t.created_at # None THEN isoformat(t.created_at)
                    ELSE PyNone]

Table_from_dict(d, clock) ==
    [id |-> IF "id" \in DOMAIN d THEN d.id ELSE None,
     number |-> IF "number" \in DOMAIN d THEN d.number ELSE 0,
     capacity |-> IF "capacity" \in DOMAIN d THEN d.capacity ELSE 0,
     location |-> IF "location" \in DOMAIN d THEN d.location ELSE "",
     is_active |-> IF "is_active" \in DOMAIN d THEN d.is_active ELSE TRUE,
     created_at |-> parsed(d, "created_at", clock)]

\* Booking.to_dict: the attached user and table are not among the keys.
Booking_to_dict(b) ==
    [id |-> b.id, user_id |-> b.user_id, table_id |-> b.table_id,
     booking_date |-> IF b.booking_date # None THEN isoformat(b.booking_date)
                      ELSE PyNone,
     booking_time |-> IF b.booking_time # None THEN isoformat(b.booking_time)
                      ELSE PyNone,
     duration_hours |-> b.duration_hours, guests_count |-> b.guests_count,
     status |-> b.status, special_requests |-> b.special_requests,
     created_at |-> IF b.created_at # None THEN isoformat(b.created_at)
                    ELSE PyNone,
     updated_at |-> IF b.updated_at # None THEN isoformat(b.updated_at)
                    ELSE PyNone]

\* Variant: an unrecognized status is not caught, the call ends in ValueError.
Booking_status_of_strict(d) ==
    IF has_text(d, "status")
    THEN IF d.status \in BookingStatus THEN d.status ELSE "ValueError"
    ELSE PENDING

\* status = BookingStatus.PENDING; if data.get('status'): try BookingStatus(..)
Booking_status_of(d) ==
    IF has_text(d, "status") THEN status_from_value(d.status) ELSE PENDING

\* data.get('duration_hours', 2.0)
Booking_duration_of(d) ==
    IF "duration_hours" \in DOMAIN d THEN d.duration_hours ELSE DefaultDuration

\* Booking.from_dict on a dict whose dates are strings; user and table keep
\* their default None, and __post_init__ fills the timestamps that are None.
Booking_from_dict(d, clock) ==
    [id |-> IF "id" \in DOMAIN d THEN d.id ELSE None,
     user_id |-> IF "user_id" \in DOMAIN d THEN d.user_id ELSE 0,
     table_id |-> IF "table_id" \in DOMAIN d THEN d.table_id ELSE 0,
     booking_date |-> parsed(d, "booking_date", None),
     booking_time |-> parsed(d, "booking_time", None),
     duration_hours |-> Booking_duration_of(d),
     guests_count |-> IF "guests_count" \in DOMAIN d THEN d.guests_count
                      ELSE 0,
     status |-> Booking_status_of(d),
     special_requests |-> IF "special_requests" \in DOMAIN d
                          THEN d.special_requests ELSE "",
     created_at |-> parsed(d, "created_at", clock),
     updated_at |-> parsed(d, "updated_at", clock),
     user |-> PyNone, table |-> PyNone]

\* x.to_dict() of an entity object, cls.from_dict(d) of the class named.
to_dict_of(cls, x) ==
    CASE cls = "Booking" -> Booking_to_dict(x)
      [] cls = "User" -> User_to_dict(x)
      [] cls = "Table" -> Table_to_dict(x)

from_dict_of(cls, d, clock) ==
    CASE cls = "Booking" -> Booking_from_dict(d, clock)
      [] cls = "User" -> User_from_dict(d, clock)
      [] cls = "Table" -> Table_from_dict(d, clock)

----------------------------------------------------------------------------
(* Store queries of BookingBackend: src/backend.py *)

\* SELECT * FROM users WHERE id = %s
get_user(user_id) == user_id \in DOMAIN users

\* SELECT * FROM tables WHERE id = %s
get_table(table_id) == table_id \in DOMAIN tables

\* SELECT * FROM bookings WHERE id = %s
get_booking(store, booking_id) == booking_id \in DOMAIN store

\* Variant: the status filter names 'confirmed' only.
active_rows_confirmed_only(store, table_id, booking_date) ==
    { i \in DOMAIN store :
        /\ store[i].table_id = table_id
        /\ store[i].booking_date = booking_date
        /\ store[i].status \in {"confirmed"} }

\* SELECT * FROM bookings WHERE table_id = %s AND booking_date = %s
\*   AND status IN ('pending', 'confirmed')
active_rows(store, table_id, booking_date) ==
    { i \in DOMAIN store :
        /\ store[i].table_id = table_id
        /\ store[i].booking_date = booking_date
        /\ store[i].status \in {"pending", "confirmed"} }

\* Variant: ORDER BY id.
ordered_by_id(store, ids) ==
    { s \in [1..Cardinality(ids) -> ids] :
        \A i, j \in 1..Cardinality(ids) : i < j => s[i] < s[j] }

\* ORDER BY booking_time: every order of the rows the clause allows
\* (rows with equal booking_time come in either order).
ordered_by_time(store, ids) ==
    { s \in [1..Cardinality(ids) -> ids] :
        /\ \A i, j \in 1..Cardinality(ids) : i # j => s[i] # s[j]
        /\ \A i, j \in 1..Cardinality(ids) :
              i < j => store[s[i]].booking_time <= store[s[j]].booking_time }

temp_booking(table_id, booking_date, booking_time, duration_hours) ==
    [user_id |-> 0, table_id |-> table_id, booking_date |-> booking_date,
     booking_time |-> booking_time, duration_hours |-> duration_hours,
     guests_count |-> 0, status |-> PENDING, updated_at |-> 0]

\* Variant: the loop stops at the first conflicting row.
conflicting_of_first(store, result, temp) ==
    LET all == SelectSeq(result,
                   LAMBDA i : is_conflicting_with(temp, from_dict(store[i])))
    IN  IF all = <<>> THEN <<>> ELSE <<all[1]>>

\* The loop of get_conflicting_bookings over one retrieval `result`.
conflicting_of(store, result, temp) ==
    SelectSeq(result, LAMBDA i : is_conflicting_with(temp, from_dict(store[i])))

\* Variant: no status filter and no activity test, the intervals alone decide.
get_conflicting_bookings_any_status(store, conn, raised, r) ==
    IF ~conn THEN {<<>>}
    ELSE IF raised THEN {<<>>}
    ELSE { SelectSeq(res, LAMBDA i :
                ~(end_datetime(r) <= start_datetime(store[i])
                  \/ end_datetime(store[i]) <= start_datetime(r))) :
             res \in ordered_by_time(store,
                        { i \in DOMAIN store :
                            /\ store[i].table_id = r.table_id
                            /\ store[i].booking_date = r.booking_date }) }

\* get_conflicting_bookings: every list it may return.  `conn` is the
\* outcome of is_connected(), `raised` whether the query raised.
get_conflicting_bookings(store, conn, raised, r) ==
    IF ~conn THEN {<<>>}
    ELSE IF raised THEN {<<>>}
    ELSE { conflicting_of(store, res,
                temp_booking(r.table_id, r.booking_date, r.booking_time,
                             r.duration_hours)) :
             res \in ordered_by_time(store,
                        active_rows(store, r.table_id, r.booking_date)) }

\* get_all_bookings: SELECT * FROM bookings ORDER BY booking_date DESC,
\* booking_time DESC; every list it may return (rows with equal date and time
\* come in either order), [] when not connected or when the query raised.
get_all_bookings(store, conn, raised) ==
    IF ~conn THEN {<<>>}
    ELSE IF raised THEN {<<>>}
    ELSE { s \in [1..Cardinality(DOMAIN store) -> DOMAIN store] :
             /\ \A i, j \in DOMAIN s : i # j => s[i] # s[j]
             /\ \A i, j \in DOMAIN s :
                   i < j => \/ store[s[i]].booking_date > store[s[j]].booking_date
                            \/ /\ store[s[i]].booking_date
                                    = store[s[j]].booking_date
                               /\ store[s[i]].booking_time
                                    >= store[s[j]].booking_time }

Range(s) == { s[i] : i \in DOMAIN s }

----------------------------------------------------------------------------
(* The record of the call that has just returned *)

\* `why` is the branch the call returned from (the line it logged) and
\* `queries` the store statements it issued, in order; neither is part of the
\* value the caller receives, which is `ret` and `rows`.
Last(op, client, req, id, status, faults, ret, rows, conn) ==
    [op |-> op, client |-> client, req |-> req, id |-> id, status |-> status,
     faults |-> faults, ret |-> ret, rows |-> rows, connected |-> conn,
     why |-> "", queries |-> <<>>]

EmptyStore == [i \in {} |-> NoReq]

----------------------------------------------------------------------------
(* create_booking: src/backend.py *)

Run(verdict, queries) == [verdict |-> verdict, queries |-> queries]

\* Variant: the seats are compared after the conflict query.
create_run_capacity_last(store, conn, faults, r) ==
    IF ~conn THEN Run("not_connected", <<>>)
    ELSE IF "lookup" \in faults \/ ~get_user(r.user_id)
    THEN Run("user_not_found", <<"get_user">>)
    ELSE IF ~get_table(r.table_id)
    THEN Run("table_not_found", <<"get_user", "get_table">>)
    ELSE IF ~tables[r.table_id].is_active
    THEN Run("table_inactive", <<"get_user", "get_table">>)
    ELSE IF ~is_valid(r)
    THEN Run("invalid", <<"get_user", "get_table">>)
    ELSE IF \E c \in get_conflicting_bookings(store, conn,
                         "conflicts" \in faults, r) : c # <<>>
    THEN Run("conflict",
             <<"get_user", "get_table", "get_conflicting_bookings">>)
    ELSE IF ~can_accommodate(tables[r.table_id], r.guests_count)
    THEN Run("cannot_accommodate",
             <<"get_user", "get_table", "get_conflicting_bookings">>)
    ELSE Run("ok", <<"get_user", "get_table", "get_conflicting_bookings">>)

\* Variant: the table's is_active flag is never read, the seats alone decide.
create_run_seats_only(store, conn, faults, r) ==
    IF ~conn THEN Run("not_connected", <<>>)
    ELSE IF "lookup" \in faults \/ ~get_user(r.user_id)
    THEN Run("user_not_found", <<"get_user">>)
    ELSE IF ~get_table(r.table_id)
    THEN Run("table_not_found", <<"get_user", "get_table">>)
    ELSE IF ~(r.guests_count <= tables[r.table_id].capacity)
    THEN Run("cannot_accommodate", <<"get_user", "get_table">>)
    ELSE IF ~is_valid(r)
    THEN Run("invalid", <<"get_user", "get_table">>)
    ELSE IF \E c \in get_conflicting_bookings(store, conn,
                         "conflicts" \in faults, r) : c # <<>>
    THEN Run("conflict",
             <<"get_user", "get_table", "get_conflicting_bookings">>)
    ELSE Run("ok", <<"get_user", "get_table", "get_conflicting_bookings">>)

\* Variant: the table is read before the user.
create_run_table_first(store, conn, faults, r) ==
    IF ~conn THEN Run("not_connected", <<>>)
    ELSE IF ~get_table(r.table_id)
    THEN Run("table_not_found", <<"get_table">>)
    ELSE IF "lookup" \in faults \/ ~get_user(r.user_id)
    THEN Run("user_not_found", <<"get_table", "get_user">>)
    ELSE IF ~can_accommodate(tables[r.table_id], r.guests_count)
    THEN Run("cannot_accommodate", <<"get_table", "get_user">>)
    ELSE IF ~tables[r.table_id].is_active
    THEN Run("table_inactive", <<"get_table", "get_user">>)
    ELSE IF ~is_valid(r)
    THEN Run("invalid", <<"get_table", "get_user">>)
    ELSE IF \E c \in get_conflicting_bookings(store, conn,
                         "conflicts" \in faults, r) : c # <<>>
    THEN Run("conflict",
             <<"get_table", "get_user", "get_conflicting_bookings">>)
    ELSE Run("ok", <<"get_table", "get_user", "get_conflicting_bookings">>)

\* Variant: the candidate's is_valid() is not consulted.
create_run_unvalidated(store, conn, faults, r) ==
    IF ~conn THEN Run("not_connected", <<>>)
    ELSE IF "lookup" \in faults \/ ~get_user(r.user_id)
    THEN Run("user_not_found", <<"get_user">>)
    ELSE IF ~get_table(r.table_id)
    THEN Run("table_not_found", <<"get_user", "get_table">>)
    ELSE IF ~can_accommodate(tables[r.table_id], r.guests_count)
    THEN Run("cannot_accommodate", <<"get_user", "get_table">>)
    ELSE IF ~tables[r.table_id].is_active
    THEN Run("table_inactive", <<"get_user", "get_table">>)
    ELSE IF \E c \in get_conflicting_bookings(store, conn,
                         "conflicts" \in faults, r) : c # <<>>
    THEN Run("conflict",
             <<"get_user", "get_table", "get_conflicting_bookings">>)
    ELSE Run("ok", <<"get_user", "get_table", "get_conflicting_bookings">>)

\* Variant: create_booking does not ask is_connected().
create_run_no_connection_check(store, conn, faults, r) ==
    IF "lookup" \in faults \/ ~get_user(r.user_id)
    THEN Run("user_not_found", <<"get_user">>)
    ELSE IF ~get_table(r.table_id)
    THEN Run("table_not_found", <<"get_user", "get_table">>)
    ELSE IF ~can_accommodate(tables[r.table_id], r.guests_count)
    THEN Run("cannot_accommodate", <<"get_user", "get_table">>)
    ELSE IF ~tables[r.table_id].is_active
    THEN Run("table_inactive", <<"get_user", "get_table">>)
    ELSE IF ~is_valid(r)
    THEN Run("invalid", <<"get_user", "get_table">>)
    ELSE IF \E c \in get_conflicting_bookings(store, conn,
                         "conflicts" \in faults, r) : c # <<>>
    THEN Run("conflict",
             <<"get_user", "get_table", "get_conflicting_bookings">>)
    ELSE Run("ok", <<"get_user", "get_table", "get_conflicting_bookings">>)

\* create_booking from its first line to the conflict check, in the order of
\* the code: the first check that returns None (or "ok"), and the store
\* statements issued on the way.
create_run(store, conn, faults, r) ==
    IF ~conn THEN Run("not_connected", <<>>)
    ELSE IF "lookup" \in faults \/ ~get_user(r.user_id)
    THEN Run("user_not_found", <<"get_user">>)
    ELSE IF ~get_table(r.table_id)
    THEN Run("table_not_found", <<"get_user", "get_table">>)
    ELSE IF ~can_accommodate(tables[r.table_id], r.guests_count)
    THEN Run("cannot_accommodate", <<"get_user", "get_table">>)
    ELSE IF ~tables[r.table_id].is_active
    THEN Run("table_inactive", <<"get_user", "get_table">>)
    ELSE IF ~is_valid(r)
    THEN Run("invalid", <<"get_user", "get_table">>)
    ELSE IF \E c \in get_conflicting_bookings(store, conn,
                         "conflicts" \in faults, r) : c # <<>>
    THEN Run("conflict",
             <<"get_user", "get_table", "get_conflicting_bookings">>)
    ELSE Run("ok", <<"get_user", "get_table", "get_conflicting_bookings">>)

\* The check of create_booking that returns None, or "ok".
create_checks(store, conn, faults, r) ==
    create_run(store, conn, faults, r).verdict

\* Variant: the row is inserted as 'confirmed'.
new_row_confirmed(r, stamp) ==
    [user_id |-> r.user_id, table_id |-> r.table_id,
     booking_date |-> r.booking_date, booking_time |-> r.booking_time,
     duration_hours |-> r.duration_hours, guests_count |-> r.guests_count,
     special_requests |-> r.special_requests, status |-> CONFIRMED,
     created_at |-> stamp, updated_at |-> stamp]

\* INSERT INTO bookings (...) VALUES (..., 'pending')
\*   RETURNING id, created_at, updated_at
new_row(r, stamp) ==
    [user_id |-> r.user_id, table_id |-> r.table_id,
     booking_date |-> r.booking_date, booking_time |-> r.booking_time,
     duration_hours |-> r.duration_hours, guests_count |-> r.guests_count,
     special_requests |-> r.special_requests, status |-> PENDING,
     created_at |-> stamp, updated_at |-> stamp]

insert_booking(store, id, r, stamp) ==
    [i \in DOMAIN store \cup {id} |->
        IF i = id THEN new_row(r, stamp) ELSE store[i]]

\* One create_booking call, run to completion.
CreateBooking(r, faults) ==
    LET run == create_run(bookings, connected, faults, r)
        verdict == create_checks(bookings, connected, faults, r)
        inserted == verdict = "ok" /\ "write" \notin faults
    IN  /\ inserted => nextId <= MaxBookings
        /\ bookings' = IF inserted
                       THEN insert_booking(bookings, nextId, r, now)
                       ELSE bookings
        /\ nextId' = IF inserted THEN nextId + 1 ELSE nextId
        /\ last' = [Last("create_booking", 0, r, 0, PENDING, faults,
                         IF inserted THEN nextId ELSE 0, <<>>, connected)
                       EXCEPT !.why = IF verdict = "ok" /\ ~inserted
                                      THEN "store_error" ELSE verdict,
                              !.queries = IF verdict = "ok"
                                          THEN Append(run.queries, "insert")
                                          ELSE run.queries]
        /\ UNCHANGED <<users, tables, connected, now, pc, pending,
                     nextUserId, nextTableId,
                     driver, cli>>

----------------------------------------------------------------------------
(* get_conflicting_bookings called on its own *)

GetConflictingBookings(r, faults) ==
    /\ \E rows \in get_conflicting_bookings(bookings, connected,
                       "conflicts" \in faults, r) :
          last' = Last("get_conflicting_bookings", 0, r, 0, PENDING, faults,
                       0, rows, connected)
    /\ UNCHANGED <<users, tables, bookings, nextId, connected, now, pc, pending,
                     nextUserId, nextTableId,
                     driver, cli>>

----------------------------------------------------------------------------
(* update_booking_status *)

\* Variant: the UPDATE stamps created_at as well.
update_status_stamps_created(store, id, status, stamp) ==
    [store EXCEPT ![id].status = status, ![id].updated_at = stamp,
                  ![id].created_at = stamp]

\* Variant: the UPDATE stamps the row and leaves its status.
update_status_stamp_only(store, id, status, stamp) ==
    [store EXCEPT ![id].updated_at = stamp]

\* UPDATE bookings SET status = %s, updated_at = CURRENT_TIMESTAMP WHERE id = %s
update_status(store, id, status, stamp) ==
    [store EXCEPT ![id].status = status, ![id].updated_at = stamp]

\* Variant: the booking is not looked up before the UPDATE, and the call
\* returns a booking all the same.
update_why_no_lookup(store, conn, faults, id, status) ==
    IF ~conn THEN "not_connected"
    ELSE IF "lookup" \in faults THEN "booking_not_found"
    ELSE IF /\ get_booking(store, id)
            /\ ~can_be_cancelled(from_dict(store[id]))
            /\ status = CANCELLED
    THEN "cannot_be_cancelled"
    ELSE IF "write" \in faults THEN "store_error"
    ELSE "ok"

\* The branch update_booking_status returns from.
update_why(store, conn, faults, id, status) ==
    IF ~conn THEN "not_connected"
    ELSE IF "lookup" \in faults \/ ~get_booking(store, id)
    THEN "booking_not_found"
    ELSE IF ~can_be_cancelled(from_dict(store[id])) /\ status = CANCELLED
    THEN "cannot_be_cancelled"
    ELSE IF "write" \in faults THEN "store_error"
    ELSE "ok"

\* Variant: the transition guard covers every target status.
update_allowed_terminal_guard(store, conn, faults, id, status) ==
    IF ~conn THEN FALSE
    ELSE IF "lookup" \in faults \/ ~get_booking(store, id) THEN FALSE
    ELSE IF ~can_be_cancelled(from_dict(store[id])) THEN FALSE
    ELSE "write" \notin faults

update_allowed(store, conn, faults, id, status) ==
    update_why(store, conn, faults, id, status) = "ok"

UpdateBookingStatus(id, status, faults) ==
    LET ok == update_allowed(bookings, connected, faults, id, status)
    IN  /\ bookings' = IF ok THEN update_status(bookings, id, status, now)
                       ELSE bookings
        /\ last' = [Last("update_booking_status", 0, NoReq, id, status, faults,
                         IF ok THEN id ELSE 0, <<>>, connected)
                       EXCEPT !.why = update_why(bookings, connected, faults,
                                                 id, status)]
        /\ UNCHANGED <<users, tables, nextId, connected, now, pc, pending,
                     nextUserId, nextTableId,
                     driver, cli>>

----------------------------------------------------------------------------
(* delete_booking *)

\* Variant: a soft delete, the row stays with status 'cancelled'.
delete_row_soft(store, id) == [store EXCEPT ![id].status = CANCELLED]

\* DELETE FROM bookings WHERE id = %s
delete_row(store, id) == [i \in DOMAIN store \ {id} |-> store[i]]

delete_allowed(store, conn, faults, id) ==
    IF ~conn THEN FALSE
    ELSE IF "lookup" \in faults \/ ~get_booking(store, id) THEN FALSE
    ELSE "write" \notin faults

DeleteBooking(id, faults) ==
    LET ok == delete_allowed(bookings, connected, faults, id)
    IN  /\ bookings' = IF ok THEN delete_row(bookings, id) ELSE bookings
        /\ last' = Last("delete_booking", 0, NoReq, id, PENDING, faults,
                        IF ok THEN 1 ELSE 0, <<>>, connected)
        /\ UNCHANGED <<users, tables, nextId, connected, now, pc, pending,
                     nextUserId, nextTableId,
                     driver, cli>>

----------------------------------------------------------------------------
(* create_user, update_user *)

\* The keyword arguments of an update call are a function from the names of
\* the arguments that are given (not None) to their values.
given(args, f) == f \in DOMAIN args

NoArgs == [f \in {} |-> ""]

\* bool(x) of a str and of an int
truthy_str(s) == s # ""

truthy_int(n) == n # 0

\* SELECT * FROM users WHERE phone = %s
get_user_by_phone(us, phone) == \E u \in DOMAIN us : us[u].phone = phone

\* The branch create_user returns from.  get_user_by_phone returns None when
\* its query raises, which create_user reads as "no such phone".
create_user_why(us, conn, faults, name, phone) ==
    IF ~conn THEN "not_connected"
    ELSE IF ~User_is_valid([name |-> name, phone |-> phone]) THEN "invalid"
    ELSE IF "lookup" \notin faults /\ get_user_by_phone(us, phone)
    THEN "duplicate"
    ELSE IF "write" \in faults THEN "store_error"
    ELSE "ok"

\* INSERT INTO users (name, phone) VALUES (%s, %s) RETURNING id, created_at
insert_user(us, id, name, phone) ==
    [u \in DOMAIN us \cup {id} |->
        IF u = id THEN [name |-> name, phone |-> phone] ELSE us[u]]

CreateUser(name, phone, faults) ==
    LET why == create_user_why(users, connected, faults, name, phone)
        ok == why = "ok"
    IN  /\ ok => nextUserId <= MaxUsers
        /\ users' = IF ok THEN insert_user(users, nextUserId, name, phone)
                    ELSE users
        /\ nextUserId' = IF ok THEN nextUserId + 1 ELSE nextUserId
        /\ last' = [Last("create_user", 0, [name |-> name, phone |-> phone], 0,
                         PENDING, faults, IF ok THEN nextUserId ELSE 0, <<>>,
                         connected)
                       EXCEPT !.why = why]
        /\ UNCHANGED <<tables, bookings, nextId, nextTableId, connected, now,
                       pc, pending,
                     driver, cli>>

\* new_name = name if name is not None else current_user.name
updated_user(cur, args) ==
    [name |-> IF given(args, "name") THEN args.name ELSE cur.name,
     phone |-> IF given(args, "phone") THEN args.phone ELSE cur.phone]

\* The branch update_user returns from.
update_user_why(us, conn, faults, id, args) ==
    IF ~conn THEN "not_connected"
    ELSE IF "lookup" \in faults \/ ~get_user(id) THEN "user_not_found"
    ELSE IF /\ given(args, "phone")
            /\ truthy_str(args.phone)
            /\ args.phone # us[id].phone
            /\ get_user_by_phone(us, args.phone)
    THEN "duplicate"
    ELSE IF "write" \in faults THEN "store_error"
    ELSE "ok"

\* UPDATE users SET name = %s, phone = %s WHERE id = %s RETURNING *
update_user_row(us, id, args) ==
    [us EXCEPT ![id] = updated_user(us[id], args)]

UpdateUser(id, args, faults) ==
    LET why == update_user_why(users, connected, faults, id, args)
        ok == why = "ok"
    IN  /\ users' = IF ok THEN update_user_row(users, id, args) ELSE users
        /\ last' = [Last("update_user", 0, args, id, PENDING, faults,
                         IF ok THEN id ELSE 0, <<>>, connected)
                       EXCEPT !.why = why]
        /\ UNCHANGED <<tables, bookings, nextId, nextUserId, nextTableId,
                       connected, now, pc, pending,
                     driver, cli>>

----------------------------------------------------------------------------
(* create_table, update_table *)

\* SELECT * FROM tables WHERE number = %s
get_table_by_number(ts, number) == \E t \in DOMAIN ts : ts[t].number = number

\* The branch create_table returns from.  get_table_by_number returns None
\* when its query raises, which create_table reads as "no such number".
create_table_why(ts, conn, faults, t) ==
    IF ~conn THEN "not_connected"
    ELSE IF ~Table_is_valid(t) THEN "invalid"
    ELSE IF "lookup" \notin faults /\ get_table_by_number(ts, t.number)
    THEN "duplicate"
    ELSE IF "write" \in faults THEN "store_error"
    ELSE "ok"

\* INSERT INTO tables (number, capacity, location, is_active)
\*   VALUES (%s, %s, %s, %s) RETURNING id, created_at
insert_table(ts, id, t) ==
    [i \in DOMAIN ts \cup {id} |-> IF i = id THEN t ELSE ts[i]]

CreateTable(t, faults) ==
    LET why == create_table_why(tables, connected, faults, t)
        ok == why = "ok"
    IN  /\ ok => nextTableId <= MaxTables
        /\ tables' = IF ok THEN insert_table(tables, nextTableId, t)
                     ELSE tables
        /\ nextTableId' = IF ok THEN nextTableId + 1 ELSE nextTableId
        /\ last' = [Last("create_table", 0, t, 0, PENDING, faults,
                         IF ok THEN nextTableId ELSE 0, <<>>, connected)
                       EXCEPT !.why = why]
        /\ UNCHANGED <<users, bookings, nextId, nextUserId, connected, now,
                       pc, pending,
                     driver, cli>>

\* new_number = number if number is not None else current_table.number, ...
updated_table(cur, args) ==
    [number |-> IF given(args, "number") THEN args.number ELSE cur.number,
     capacity |-> IF given(args, "capacity") THEN args.capacity
                  ELSE cur.capacity,
     location |-> IF given(args, "location") THEN args.location
                  ELSE cur.location,
     is_active |-> IF given(args, "is_active") THEN args.is_active
                   ELSE cur.is_active]

\* The branch update_table returns from.
update_table_why(ts, conn, faults, id, args) ==
    IF ~conn THEN "not_connected"
    ELSE IF "lookup" \in faults \/ ~get_table(id) THEN "table_not_found"
    ELSE IF /\ given(args, "number")
            /\ truthy_int(args.number)
            /\ args.number # ts[id].number
            /\ get_table_by_number(ts, args.number)
    THEN "duplicate"
    ELSE IF "write" \in faults THEN "store_error"
    ELSE "ok"

\* UPDATE tables SET number = %s, capacity = %s, location = %s, is_active = %s
\*   WHERE id = %s RETURNING *
update_table_row(ts, id, args) ==
    [ts EXCEPT ![id] = updated_table(ts[id], args)]

UpdateTable(id, args, faults) ==
    LET why == update_table_why(tables, connected, faults, id, args)
        ok == why = "ok"
    IN  /\ tables' = IF ok THEN update_table_row(tables, id, args) ELSE tables
        /\ last' = [Last("update_table", 0, args, id, PENDING, faults,
                         IF ok THEN id ELSE 0, <<>>, connected)
                       EXCEPT !.why = why]
        /\ UNCHANGED <<users, bookings, nextId, nextUserId, nextTableId,
                       connected, now, pc, pending,
                     driver, cli>>

----------------------------------------------------------------------------
(* delete_user and delete_table *)

\* DELETE FROM users WHERE id = %s
delete_user_row(us, user_id) == [u \in DOMAIN us \ {user_id} |-> us[u]]

\* DELETE FROM tables WHERE id = %s
delete_table_row(ts, table_id) == [t \in DOMAIN ts \ {table_id} |-> ts[t]]

\* Variant: no cascade, the bookings of a deleted user stay.
cascade_user_none(store, user_id) == store

\* bookings.user_id is a foreign key on users, deleting a user cascades: the
\* store removes the bookings of the deleted user with it.
cascade_user(store, user_id) ==
    [i \in { j \in DOMAIN store : store[j].user_id # user_id } |-> store[i]]

\* bookings.table_id is a foreign key on tables, deleting a table cascades.
cascade_table(store, table_id) ==
    [i \in { j \in DOMAIN store : store[j].table_id # table_id } |-> store[i]]

delete_user_allowed(conn, faults, user_id) ==
    IF ~conn THEN FALSE
    ELSE IF "lookup" \in faults \/ ~get_user(user_id) THEN FALSE
    ELSE "write" \notin faults

delete_table_allowed(conn, faults, table_id) ==
    IF ~conn THEN FALSE
    ELSE IF "lookup" \in faults \/ ~get_table(table_id) THEN FALSE
    ELSE "write" \notin faults

DeleteUser(user_id, faults) ==
    LET ok == delete_user_allowed(connected, faults, user_id)
    IN  /\ users' = IF ok THEN delete_user_row(users, user_id) ELSE users
        /\ bookings' = IF ok THEN cascade_user(bookings, user_id) ELSE bookings
        /\ last' = Last("delete_user", 0, NoReq, user_id, PENDING, faults,
                        IF ok THEN 1 ELSE 0, <<>>, connected)
        /\ UNCHANGED <<tables, nextId, connected, now, pc, pending,
                     nextUserId, nextTableId,
                     driver, cli>>

DeleteTable(table_id, faults) ==
    LET ok == delete_table_allowed(connected, faults, table_id)
    IN  /\ tables' = IF ok THEN delete_table_row(tables, table_id) ELSE tables
        /\ bookings' = IF ok THEN cascade_table(bookings, table_id)
                       ELSE bookings
        /\ last' = Last("delete_table", 0, NoReq, table_id, PENDING, faults,
                        IF ok THEN 1 ELSE 0, <<>>, connected)
        /\ UNCHANGED <<users, nextId, connected, now, pc, pending,
                     nextUserId, nextTableId,
                     driver, cli>>

----------------------------------------------------------------------------
(* Connection and clock *)

\* PostgreSQLDriver() before connect(), and after disconnect():
\* self.connection is None.
NoConnection == [autocommit |-> FALSE, uncommitted |-> {}]

\* connect(): a new connection, self.connection.autocommit = True.
Connection == [autocommit |-> TRUE, uncommitted |-> {}]

\* A connection that is closed or dropped rolls its open transaction back:
\* the rows inserted and not committed are gone.
discarded(store, d) == [i \in DOMAIN store \ d.uncommitted |-> store[i]]

\* begin_transaction: self.connection.autocommit = False
begin_transaction(d) == [d EXCEPT !.autocommit = FALSE]

\* The statement has run on the connection; outside autocommit it stays in
\* the open transaction.
executed(d, ids) ==
    IF d.autocommit THEN d ELSE [d EXCEPT !.uncommitted = @ \cup ids]

\* commit_transaction: self.connection.commit()
commit_transaction(d) == [d EXCEPT !.uncommitted = {}]

\* rollback_transaction: self.connection.rollback()
rollback_transaction(d) == [d EXCEPT !.uncommitted = {}]

\* with driver.transaction(): a body that inserts r through execute_query, or
\* does nothing, and returns (commit) or raises (rollback).  When there is no
\* connection begin_transaction raises and nothing has happened.
Transaction(body, r, raises) ==
    LET begun == begin_transaction(driver)
        inserts == body = "insert"
        inside == executed(begun, IF inserts THEN {nextId} ELSE {})
        written == IF inserts THEN insert_booking(bookings, nextId, r, now)
                   ELSE bookings
    IN  /\ inserts => nextId <= MaxBookings
        /\ driver' = IF ~connected THEN driver
                     ELSE IF raises THEN rollback_transaction(inside)
                     ELSE commit_transaction(inside)
        /\ bookings' = IF ~connected THEN bookings
                       ELSE IF raises THEN discarded(written, inside)
                       ELSE written
        /\ nextId' = IF connected /\ inserts THEN nextId + 1 ELSE nextId
        /\ last' = [Last("transaction", 0, r, 0, PENDING, NoFault,
                         IF connected /\ inserts /\ ~raises THEN nextId ELSE 0,
                         <<>>, connected)
                       EXCEPT !.why = IF ~connected THEN "not_connected"
                                      ELSE IF raises THEN "rollback"
                                      ELSE "commit"]
        /\ UNCHANGED <<users, tables, nextUserId, nextTableId, connected, now,
                       pc, pending, cli>>

\* execute_query with the INSERT ... RETURNING of create_booking, outside any
\* transaction block: the statement runs and nothing is committed by the
\* driver.  Without a connection it raises.
ExecuteQuery(r) ==
    /\ connected => nextId <= MaxBookings
    /\ bookings' = IF connected THEN insert_booking(bookings, nextId, r, now)
                   ELSE bookings
    /\ nextId' = IF connected THEN nextId + 1 ELSE nextId
    /\ driver' = IF connected THEN executed(driver, {nextId}) ELSE driver
    /\ last' = [Last("execute_query", 0, r, 0, PENDING, NoFault,
                     IF connected THEN nextId ELSE 0, <<>>, connected)
                   EXCEPT !.why = IF connected THEN "ok" ELSE "not_connected"]
    /\ UNCHANGED <<users, tables, nextUserId, nextTableId, connected, now,
                   pc, pending, cli>>

\* execute_update with the DELETE of delete_booking: the statement runs and
\* self.connection.commit() follows.
ExecuteUpdate(id) ==
    LET ok == connected /\ id \in DOMAIN bookings
    IN  /\ bookings' = IF ok THEN delete_row(bookings, id) ELSE bookings
        /\ driver' = IF connected THEN commit_transaction(driver) ELSE driver
        /\ last' = [Last("execute_update", 0, NoReq, id, PENDING, NoFault,
                         IF ok THEN 1 ELSE 0, <<>>, connected)
                       EXCEPT !.why = IF connected THEN "ok"
                                      ELSE "not_connected"]
        /\ UNCHANGED <<users, tables, nextId, nextUserId, nextTableId,
                       connected, now, pc, pending, cli>>

\* PostgreSQLDriver.connect: when psycopg2.connect raises, self.connection
\* keeps its value.
Connect(ok) ==
    /\ connected' = IF ok THEN TRUE ELSE connected
    /\ driver' = IF ok THEN Connection ELSE driver
    /\ bookings' = IF ok THEN discarded(bookings, driver) ELSE bookings
    /\ last' = Last("connect", 0, NoReq, 0, PENDING, NoFault,
                    IF ok THEN 1 ELSE 0, <<>>, connected)
    /\ UNCHANGED <<users, tables, nextId, now, pc, pending,
                     nextUserId, nextTableId, cli>>

\* The finally clause of disconnect: self.connection = None, whether close()
\* returned or raised.
closed(conn, d, raised) == [connected |-> FALSE, driver |-> NoConnection]

\* PostgreSQLDriver.disconnect: nothing without a connection; else close(),
\* which may raise psycopg2.Error, and the finally clause.
Disconnect ==
    \E raised \in IF connected THEN BOOLEAN ELSE {FALSE} :
        /\ connected' = closed(connected, driver, raised).connected
        /\ driver' = closed(connected, driver, raised).driver
        /\ bookings' = discarded(bookings, driver)
        /\ last' = [Last("disconnect", 0, NoReq, 0, PENDING, NoFault, 0, <<>>,
                         connected)
                       EXCEPT !.why = IF raised THEN "close_raised" ELSE ""]
    /\ UNCHANGED <<users, tables, nextId, now, pc, pending,
                     nextUserId, nextTableId, cli>>

\* Time passes at the store.
Tick ==
    /\ now < MaxClock
    /\ now' = now + 1
    /\ last' = Last("tick", 0, NoReq, 0, PENDING, NoFault, 0, <<>>, connected)
    /\ UNCHANGED <<users, tables, bookings, nextId, connected, pc, pending,
                     nextUserId, nextTableId,
                     driver, cli>>

----------------------------------------------------------------------------
(* create_booking of two clients of the same store, interleaved.  Each     *)
(* client has its own connection in autocommit mode (connect), so every    *)
(* statement is its own transaction: the calls interleave between the      *)
(* conflict query and the INSERT.                                          *)

Checked == { c \in Clients : pc[c] = "checked" }

\* create_booking from its first line up to and including the conflict query.
CreateCheck(c, r) ==
    LET verdict == create_checks(bookings, connected, NoFault, r)
    IN  /\ pc[c] = "idle"
        /\ verdict = "ok" => nextId + Cardinality(Checked) <= MaxBookings
        /\ IF verdict = "ok"
           THEN /\ pc' = [pc EXCEPT ![c] = "checked"]
                /\ pending' = [pending EXCEPT ![c] = r]
                /\ last' = Last("conflict_query", c, r, 0, PENDING, NoFault, 0,
                                <<>>, connected)
           ELSE /\ UNCHANGED <<pc, pending,
                     nextUserId, nextTableId,
                     driver, cli>>
                /\ last' = [Last("create_booking", c, r, 0, PENDING, NoFault,
                                 0, <<>>, connected)
                               EXCEPT !.why = verdict]
        /\ UNCHANGED <<users, tables, bookings, nextId, connected, now,
                     nextUserId, nextTableId,
                     driver, cli>>

\* Variant: the store refuses a row that overlaps an active one (an exclusion
\* constraint), and create_booking returns None.
CreateInsertExclusive(c) ==
    LET free == \A i \in DOMAIN bookings :
                    ~is_conflicting_with(
                        temp_booking(pending[c].table_id, pending[c].booking_date,
                                     pending[c].booking_time,
                                     pending[c].duration_hours),
                        from_dict(bookings[i]))
    IN  /\ pc[c] = "checked"
        /\ bookings' = IF free
                       THEN insert_booking(bookings, nextId, pending[c], now)
                       ELSE bookings
        /\ nextId' = IF free THEN nextId + 1 ELSE nextId
        /\ pc' = [pc EXCEPT ![c] = "idle"]
        /\ pending' = [pending EXCEPT ![c] = NoReq]
        /\ last' = Last("create_booking", c, pending[c], 0, PENDING, NoFault,
                        IF free THEN nextId ELSE 0, <<>>, connected)
        /\ UNCHANGED <<users, tables, connected, now,
                     nextUserId, nextTableId,
                     driver, cli>>

\* The INSERT of create_booking and its return.
CreateInsert(c) ==
    /\ pc[c] = "checked"
    /\ bookings' = insert_booking(bookings, nextId, pending[c], now)
    /\ nextId' = nextId + 1
    /\ pc' = [pc EXCEPT ![c] = "idle"]
    /\ pending' = [pending EXCEPT ![c] = NoReq]
    /\ last' = Last("create_booking", c, pending[c], 0, PENDING, NoFault,
                    nextId, <<>>, connected)
    /\ UNCHANGED <<users, tables, connected, now,
                     nextUserId, nextTableId,
                     driver, cli>>

----------------------------------------------------------------------------
(* A caller that serializes an entity and reads it back.  pc[c] names the  *)
(* class and the form ("Booking" for an object, "Booking_dict" for a       *)
(* dict) of the value pending[c] the caller holds.                         *)

Classes == {"Booking", "User", "Table"}

dict_form(cls) ==
    CASE cls = "Booking" -> "Booking_dict"
      [] cls = "User" -> "User_dict"
      [] cls = "Table" -> "Table_dict"

ToDict(c) ==
    \E cls \in Classes :
        /\ pc[c] = cls
        /\ pc' = [pc EXCEPT ![c] = dict_form(cls)]
        /\ pending' = [pending EXCEPT ![c] = to_dict_of(cls, pending[c])]
        /\ last' = Last("to_dict", c, pending[c], 0, PENDING, NoFault, 0,
                        <<to_dict_of(cls, pending[c])>>, connected)
        /\ UNCHANGED <<users, tables, bookings, nextId, nextUserId,
                       nextTableId, connected, now,
                     driver, cli>>

FromDict(c) ==
    \E cls \in Classes :
        /\ pc[c] = dict_form(cls)
        /\ pc' = [pc EXCEPT ![c] = cls]
        /\ pending' = [pending EXCEPT
                          ![c] = from_dict_of(cls, pending[c], now)]
        /\ last' = Last("from_dict", c, pending[c], 0, PENDING, NoFault, 0,
                        <<from_dict_of(cls, pending[c], now)>>, connected)
        /\ UNCHANGED <<users, tables, bookings, nextId, nextUserId,
                       nextTableId, connected, now,
                     driver, cli>>

----------------------------------------------------------------------------
(* BookingCLI: src/main.py *)

\* The definitions of check_table_availability in the body of class
\* BookingCLI, in source order, with their number of parameters after self.
Definitions ==
    << [name |-> "check_table_availability", params |-> 4],
       [name |-> "check_table_availability", params |-> 0] >>

\* A class body binds a name to the last definition of it.
bound_method(name) ==
    Definitions[CHOOSE i \in DOMAIN Definitions :
                    /\ Definitions[i].name = name
                    /\ \A j \in DOMAIN Definitions :
                          Definitions[j].name = name => j <= i]

\* SELECT * FROM tables WHERE is_active = TRUE AND capacity >= %s
\*   ORDER BY number; [] when not connected.
get_available_tables(ts, conn, capacity) ==
    IF ~conn THEN <<>>
    ELSE LET ids == { t \in DOMAIN ts :
                        ts[t].is_active /\ ts[t].capacity >= capacity }
         IN  CHOOSE s \in [1..Cardinality(ids) -> ids] :
                 \A i, j \in 1..Cardinality(ids) :
                     i < j => ts[s[i]].number < ts[s[j]].number

\* The body of the first definition of check_table_availability: what it
\* prints before it returns.
check_table_availability(store, conn, table_id, slot) ==
    IF ~conn \/ ~get_table(table_id) THEN "table_not_found"
    ELSE IF ~tables[table_id].is_active THEN "table_inactive"
    ELSE IF \E c \in get_conflicting_bookings(store, conn, FALSE, slot) :
                c # <<>>
    THEN "busy"
    ELSE "available"

\* get_user_info: the user of the phone entered, None (0) for an empty phone;
\* for a phone that is not stored the name is asked, and left empty here.
get_user_info(us, conn, phone) ==
    IF strip(phone) = "" THEN 0
    ELSE IF conn /\ get_user_by_phone(us, strip(phone))
    THEN CHOOSE u \in DOMAIN us : us[u].phone = strip(phone)
    ELSE 0

Flow(why, table_id, user, calls) ==
    [why |-> why, table_id |-> table_id, user |-> user, calls |-> calls]

\* book_table: step 1, then step 2 when step 1 returned the booking data.
\* `in` is what the user types: date, time, duration, guests, choice, phone,
\* confirm; an unparsable date or time is None.  get_user_choice asks again
\* until the choice is one of the listed tables.
book_table_run(store, conn, cur, in) ==
    LET available == get_available_tables(tables, conn, in.guests)
        selected == available[in.choice]
        slot == Req(0, selected, in.date, in.time, in.duration, in.guests)
        check == check_table_availability(store, conn, selected, slot)
        user == IF cur # 0 THEN cur ELSE get_user_info(users, conn, in.phone)
    IN  IF in.date = None THEN Flow("step1_error", 0, cur, <<>>)
        ELSE IF in.time = None THEN Flow("bad_time", 0, cur, <<>>)
        ELSE IF in.guests <= 0 THEN Flow("bad_guests", 0, cur, <<>>)
        ELSE IF available = <<>>
        THEN Flow("no_tables", 0, cur, <<"get_available_tables">>)
        ELSE IF in.choice \notin DOMAIN available
        THEN Flow("asked_again", 0, cur, <<"get_available_tables">>)
        ELSE IF bound_method("check_table_availability").params # 4
        THEN Flow("step1_error", selected, cur, <<"get_available_tables">>)
        ELSE IF check # "available"
        THEN Flow(check, selected, cur,
                  <<"get_available_tables", "get_table",
                    "get_conflicting_bookings">>)
        ELSE IF user = 0
        THEN Flow("no_user", selected, cur,
                  <<"get_available_tables", "get_table",
                    "get_conflicting_bookings">>)
        ELSE IF in.confirm \notin {"y", "yes"}
        THEN Flow("declined", selected, user,
                  <<"get_available_tables", "get_table",
                    "get_conflicting_bookings", "get_table">>)
        ELSE Flow("confirmed", selected, user,
                  <<"get_available_tables", "get_table",
                    "get_conflicting_bookings", "get_table",
                    "create_booking">>)

\* What the user typed, with the table chosen and the user of step 2.
Typed(in, flow, user) ==
    [user_id |-> user, table_id |-> flow.table_id,
     booking_date |-> in.date, booking_time |-> in.time,
     duration_hours |-> in.duration, guests_count |-> in.guests,
     special_requests |-> "", confirm |-> in.confirm]

\* Menu option 2, run to its return to the menu loop.
BookTable(in) ==
    LET flow == book_table_run(bookings, connected, cli.current_user, in)
        asked == flow.table_id # 0
        user == IF cli.current_user # 0 THEN cli.current_user
                ELSE get_user_info(users, connected, in.phone)
        r == Req(flow.user, flow.table_id, in.date, in.time, in.duration,
                 in.guests)
        called == flow.why = "confirmed"
        inserted == called
                    /\ create_checks(bookings, connected, NoFault, r) = "ok"
    IN  /\ cli.pc = "menu"
        /\ flow.why # "asked_again"
        /\ asked \/ in.choice = 1
        /\ inserted => nextId <= MaxBookings
        /\ bookings' = IF inserted
                       THEN insert_booking(bookings, nextId, r, now)
                       ELSE bookings
        /\ nextId' = IF inserted THEN nextId + 1 ELSE nextId
        /\ cli' = [cli EXCEPT !.pc = "pause", !.current_user = flow.user]
        /\ last' = [Last("book_table", 0, Typed(in, flow, user), 0, PENDING,
                         NoFault, IF inserted THEN nextId ELSE 0, <<>>,
                         connected)
                       EXCEPT !.why = flow.why, !.queries = flow.calls]
        /\ UNCHANGED <<users, tables, nextUserId, nextTableId, connected, now,
                       pc, pending, driver>>

\* Menu option 3: get_user_info, and current_user when it returned a user.
Login(phone) ==
    LET user == get_user_info(users, connected, phone)
    IN  /\ cli.pc = "menu"
        /\ cli' = [cli EXCEPT !.pc = "pause",
                              !.current_user = IF user # 0 THEN user ELSE @]
        /\ last' = [Last("get_user_info", 0, NoReq, 0, PENDING, NoFault, user,
                         <<>>, connected)
                       EXCEPT !.why = phone]
        /\ UNCHANGED <<users, tables, bookings, nextId, nextUserId,
                       nextTableId, connected, now, pc, pending, driver>>

\* Variant: sys.exit ends the process at once, no finally clause runs.
unwind_exit_now(way) == IF way = "SystemExit" THEN "exited" ELSE "finally"

\* Where run() goes when the loop body is left: `break` falls out of the
\* loop, KeyboardInterrupt and Exception are caught by the except clauses,
\* SystemExit (sys.exit(0) of get_user_choice) matches none of them; in every
\* case the finally clause runs next.
unwind(way) ==
    CASE way = "break" -> "finally"
      [] way = "KeyboardInterrupt" -> "finally"
      [] way = "Exception" -> "finally"
      [] way = "SystemExit" -> "finally"

\* run(): backend.connect(), the menu loop when it succeeded, return when not.
RunCLI(ok) ==
    /\ cli.pc = "stopped"
    /\ connected' = IF ok THEN TRUE ELSE connected
    /\ driver' = IF ok THEN Connection ELSE driver
    /\ bookings' = IF ok THEN discarded(bookings, driver) ELSE bookings
    /\ cli' = [cli EXCEPT !.pc = IF ok THEN "menu" ELSE "returned"]
    /\ last' = Last("run", 0, NoReq, 0, PENDING, NoFault,
                    IF ok THEN 1 ELSE 0, <<>>, connected)
    /\ UNCHANGED <<users, tables, nextId, nextUserId, nextTableId,
                   now, pc, pending>>

\* get_user_choice of the menu or of a handler: choice "0" breaks the loop,
\* Ctrl-C is caught inside get_user_choice, which calls sys.exit(0).
LeaveMenu(way) ==
    /\ cli.pc = "menu"
    /\ way \in {"break", "SystemExit"}
    /\ cli' = [cli EXCEPT !.pc = unwind(way), !.left_by = way]
    /\ last' = [Last("get_user_choice", 0, NoReq, 0, PENDING, NoFault, 0,
                     <<>>, connected)
                   EXCEPT !.why = way]
    /\ UNCHANGED <<users, tables, bookings, nextId, nextUserId, nextTableId,
                   connected, now, pc, pending, driver>>

\* Menu options 1, 4, 5 and 6: the handler prints and returns, or an
\* exception leaves it (print_header and get_user_info are outside its try).
Handle(raises) ==
    /\ cli.pc = "menu"
    /\ cli' = [cli EXCEPT !.pc = IF raises THEN unwind("Exception")
                                 ELSE "pause",
                          !.left_by = IF raises THEN "Exception" ELSE @]
    /\ last' = [Last("handler", 0, NoReq, 0, PENDING, NoFault, 0, <<>>,
                     connected)
                   EXCEPT !.why = IF raises THEN "Exception" ELSE ""]
    /\ UNCHANGED <<users, tables, bookings, nextId, nextUserId, nextTableId,
                   connected, now, pc, pending, driver>>

\* input("Press Enter") after a handler: Enter, Ctrl-C, or EOF.
Pause(key) ==
    /\ cli.pc = "pause"
    /\ key \in {"Enter", "KeyboardInterrupt", "Exception"}
    /\ cli' = [cli EXCEPT !.pc = IF key = "Enter" THEN "menu"
                                 ELSE unwind(key),
                          !.left_by = IF key = "Enter" THEN @ ELSE key]
    /\ last' = [Last("input", 0, NoReq, 0, PENDING, NoFault, 0, <<>>,
                     connected)
                   EXCEPT !.why = key]
    /\ UNCHANGED <<users, tables, bookings, nextId, nextUserId, nextTableId,
                   connected, now, pc, pending, driver>>

\* finally: self.backend.disconnect()
Finally ==
    /\ cli.pc = "finally"
    /\ connected' = FALSE
    /\ driver' = NoConnection
    /\ bookings' = discarded(bookings, driver)
    /\ cli' = [cli EXCEPT !.pc = "exited", !.disconnects = @ + 1]
    /\ last' = Last("disconnect", 0, NoReq, 0, PENDING, NoFault, 0, <<>>,
                    connected)
    /\ UNCHANGED <<users, tables, nextId, nextUserId, nextTableId,
                   now, pc, pending>>

----------------------------------------------------------------------------
(* The get operations of BookingBackend: src/backend.py *)

permutations(ids) ==
    { s \in [1..Cardinality(ids) -> ids] :
        \A i, j \in 1..Cardinality(ids) : i # j => s[i] # s[j] }

\* The rows of a store whose ids are in `ids`.
rows_of(store, ids) == [i \in ids |-> store[i]]

GetOne == {"get_user", "get_user_by_phone", "get_table", "get_table_by_number",
           "get_booking"}

GetMany == {"get_all_users", "get_all_tables", "get_available_tables",
            "get_all_bookings", "get_bookings_by_user", "get_bookings_by_table"}

\* get_user, get_user_by_phone, get_table, get_table_by_number, get_booking:
\* the row found (its id), None (0) when there is none or no connection.
get_one(op, key, conn) ==
    IF ~conn THEN 0
    ELSE CASE op = "get_user" -> IF get_user(key) THEN key ELSE 0
           [] op = "get_user_by_phone" ->
                IF get_user_by_phone(users, key)
                THEN CHOOSE u \in DOMAIN users : users[u].phone = key
                ELSE 0
           [] op = "get_table" -> IF get_table(key) THEN key ELSE 0
           [] op = "get_table_by_number" ->
                IF get_table_by_number(tables, key)
                THEN CHOOSE t \in DOMAIN tables : tables[t].number = key
                ELSE 0
           [] op = "get_booking" -> IF get_booking(bookings, key) THEN key ELSE 0

\* The list operations: every list the ORDER BY of the query allows, [] when
\* there is no connection.  created_at of a user is not part of the model, so
\* get_all_users may return its rows in any order.
get_many(op, key, conn) ==
    IF ~conn THEN {<<>>}
    ELSE CASE op = "get_all_users" -> permutations(DOMAIN users)
           [] op = "get_all_tables" ->
                { s \in permutations(DOMAIN tables) :
                    \A i, j \in DOMAIN s :
                        i < j => tables[s[i]].number <= tables[s[j]].number }
           [] op = "get_available_tables" ->
                {get_available_tables(tables, conn, key)}
           [] op = "get_all_bookings" -> get_all_bookings(bookings, conn, FALSE)
           [] op = "get_bookings_by_user" ->
                get_all_bookings(
                    rows_of(bookings, { i \in DOMAIN bookings :
                                          bookings[i].user_id = key }),
                    conn, FALSE)
           [] op = "get_bookings_by_table" ->
                get_all_bookings(
                    rows_of(bookings, { i \in DOMAIN bookings :
                                          bookings[i].table_id = key }),
                    conn, FALSE)

\* get_booking_statistics: {} when there is no connection, else the dict of
\* the three aggregates (table_popularity in descending order of the count,
\* tables with equal counts in either order).
bookings_count(t) ==
    Cardinality({ i \in DOMAIN bookings : bookings[i].table_id = t })

get_booking_statistics(conn) ==
    IF ~conn THEN { [k \in {} |-> 0] }
    ELSE { [total_bookings |-> Cardinality(DOMAIN bookings),
            status_breakdown |->
                [st \in { bookings[i].status : i \in DOMAIN bookings } |->
                    Cardinality({ i \in DOMAIN bookings :
                                    bookings[i].status = st })],
            table_popularity |->
                [n \in DOMAIN s |->
                    [table_number |-> tables[s[n]].number,
                     location |-> tables[s[n]].location,
                     bookings_count |-> bookings_count(s[n])]]] :
             s \in { p \in permutations(DOMAIN tables) :
                       \A i, j \in DOMAIN p :
                           i < j => bookings_count(p[i])
                                       >= bookings_count(p[j]) } }

\* One get_* call that returns a row or None.
GetRow(op, key) ==
    /\ op \in GetOne
    /\ last' = [Last(op, 0, NoReq, 0, PENDING, NoFault,
                     get_one(op, key, connected), <<>>, connected)
                   EXCEPT !.why = IF connected THEN "ok" ELSE "not_connected"]
    /\ UNCHANGED <<users, tables, bookings, nextId, nextUserId, nextTableId,
                   connected, now, pc, pending, driver, cli>>

\* One get_* call that returns a list.
GetList(op, key) ==
    /\ op \in GetMany
    /\ \E rows \in get_many(op, key, connected) :
          last' = [Last(op, 0, NoReq, 0, PENDING, NoFault, 0, rows, connected)
                      EXCEPT !.why = IF connected THEN "ok"
                                     ELSE "not_connected"]
    /\ UNCHANGED <<users, tables, bookings, nextId, nextUserId, nextTableId,
                   connected, now, pc, pending, driver, cli>>

\* One get_booking_statistics call; the dict is recorded in `rows`.
GetStatistics ==
    /\ \E stats \in get_booking_statistics(connected) :
          last' = [Last("get_booking_statistics", 0, NoReq, 0, PENDING,
                        NoFault, 0, stats, connected)
                      EXCEPT !.why = IF connected THEN "ok"
                                     ELSE "not_connected"]
    /\ UNCHANGED <<users, tables, bookings, nextId, nextUserId, nextTableId,
                   connected, now, pc, pending, driver, cli>>

----------------------------------------------------------------------------
(* Specifications *)

\* BookingCLI() before run(): current_user is None (0).  `disconnects` counts
\* the calls of backend.disconnect() by run(), `left_by` is how the menu loop
\* was left.
NotRunning ==
    [pc |-> "stopped", current_user |-> 0, disconnects |-> 0, left_by |-> ""]

SeedUsers == [u \in {1} |-> [name |-> "Ann", phone |-> "555"]]

SeedTables ==
    [t \in {1, 2, 3} |->
        [number |-> t, capacity |-> IF t = 2 THEN 2 ELSE 4, location |-> "hall",
         is_active |-> t # 3]]

Init ==
    /\ users = SeedUsers
    /\ tables = SeedTables
    /\ bookings = EmptyStore
    /\ nextId = 1
    /\ nextUserId = 2
    /\ nextTableId = 4
    /\ driver = NoConnection
    /\ cli = NotRunning
    /\ connected = FALSE
    /\ now = 0
    /\ pc = [c \in Clients |-> "idle"]
    /\ pending = [c \in Clients |-> NoReq]
    /\ last = Last("none", 0, NoReq, 0, PENDING, NoFault, 0, <<>>, FALSE)

\* One client, every call run to completion, every store call completing.
Next ==
    \/ \E r \in Slots : CreateBooking(r, NoFault)
    \/ \E id \in BookingIds, st \in BookingStatus :
          UpdateBookingStatus(id, st, NoFault)
    \/ \E id \in BookingIds : DeleteBooking(id, NoFault)
    \/ Connect(TRUE)

Spec == Init /\ [][Next]_vars

\* The conflict engine and create_booking, with every request of Requests, on
\* every store of at most MaxBookings rows (each is a store the calls of Spec
\* build: any slot in any status, active rows overlapping or not).
StoredRows ==
    { [user_id |-> r.user_id, table_id |-> r.table_id,
       booking_date |-> r.booking_date, booking_time |-> r.booking_time,
       duration_hours |-> r.duration_hours, guests_count |-> r.guests_count,
       special_requests |-> r.special_requests, status |-> st,
       created_at |-> 0, updated_at |-> 0] : r \in Slots, st \in BookingStatus }

InitStore ==
    /\ users = SeedUsers
    /\ tables = SeedTables
    /\ \E n \in 0..MaxBookings :
          /\ bookings \in [1..n -> StoredRows]
          /\ nextId = n + 1
    /\ nextUserId = 2
    /\ nextTableId = 4
    /\ driver = Connection
    /\ cli = NotRunning
    /\ connected = TRUE
    /\ now = 0
    /\ pc = [c \in Clients |-> "idle"]
    /\ pending = [c \in Clients |-> NoReq]
    /\ last = Last("none", 0, NoReq, 0, PENDING, NoFault, 0, <<>>, TRUE)

\* One call on the drawn store (a second call would start from a store that
\* InitStore draws as well).
FirstQuery(r) == last.op = "none" /\ GetConflictingBookings(r, NoFault)

FirstCreate(r) == last.op = "none" /\ CreateBooking(r, NoFault)

NextStore ==
    \/ \E r \in Requests : FirstQuery(r)
    \/ \E r \in Requests : FirstCreate(r)

SpecStore == InitStore /\ [][NextStore]_vars

\* Spec with the passing of time, on one slot.
ClockRequests ==
    { [Req(1, 1, 1, HM(19, 0), 2, 2) EXCEPT !.special_requests = "window"] }

NextClock ==
    \/ \E r \in ClockRequests : CreateBooking(r, NoFault)
    \/ \E id \in BookingIds, st \in BookingStatus :
          UpdateBookingStatus(id, st, NoFault)
    \/ \E id \in BookingIds : DeleteBooking(id, NoFault)
    \/ Connect(TRUE)
    \/ Tick

SpecClock == Init /\ [][NextClock]_vars

\* Spec on one slot, with candidates that Booking.is_valid rejects.
ValidityRequests ==
    { Req(1, 1, 1, HM(19, 0), 2, 2),
      Req(1, 1, 1, HM(19, 0), 0, 2),     \* zero duration
      Req(1, 1, 1, HM(19, 0), -1, 2),    \* negative duration
      Req(1, 1, 1, HM(19, 0), 2, 0),     \* no guests
      Req(1, 1, None, HM(19, 0), 2, 2),  \* no date
      Req(1, 1, 1, None, 2, 2),          \* no time
      Req(0, 1, 1, HM(19, 0), 2, 2),     \* user id 0
      Req(1, 0, 1, HM(19, 0), 2, 2) }    \* table id 0

NextValid ==
    \/ \E r \in ValidityRequests : CreateBooking(r, NoFault)
    \/ \E id \in BookingIds, st \in BookingStatus :
          UpdateBookingStatus(id, st, NoFault)
    \/ \E id \in BookingIds : DeleteBooking(id, NoFault)
    \/ Connect(TRUE)

SpecValid == Init /\ [][NextValid]_vars

\* Bookings of tables 1 and 2 with the deletion of users and tables.
RefRequests ==
    { Req(1, 1, 1, HM(19, 0), 2, 2),
      Req(1, 2, 1, HM(19, 0), 2, 2),
      Req(2, 1, 1, HM(19, 0), 2, 2),     \* no such user
      Req(1, 4, 1, HM(19, 0), 2, 2) }    \* no such table

UserIds == {1, 2}

TableIds == {1, 2, 3, 4}

NextRef ==
    \/ \E r \in RefRequests : CreateBooking(r, NoFault)
    \/ \E id \in BookingIds, st \in BookingStatus :
          UpdateBookingStatus(id, st, NoFault)
    \/ \E u \in UserIds : DeleteUser(u, NoFault)
    \/ \E t \in TableIds : DeleteTable(t, NoFault)
    \/ Connect(TRUE)

SpecRef == Init /\ [][NextRef]_vars

\* The users table under create_user, update_user and delete_user.
UserInputs ==
    { [name |-> "Bob", phone |-> "777"],
      [name |-> "Bob", phone |-> "555"],     \* the phone of user 1
      [name |-> "", phone |-> "777"],
      [name |-> "Bob", phone |-> ""],
      [name |-> "Bob", phone |-> " "] }

UserUpdates ==
    { [name |-> "Bob"],
      [name |-> ""],
      [phone |-> "777"],
      [phone |-> ""],
      [name |-> "Bob", phone |-> "555"],
      NoArgs }

NewUserIds == 1..MaxUsers

NextUsers ==
    \/ \E u \in UserInputs : CreateUser(u.name, u.phone, NoFault)
    \/ \E id \in NewUserIds, args \in UserUpdates : UpdateUser(id, args, NoFault)
    \/ \E id \in NewUserIds : DeleteUser(id, NoFault)
    \/ Connect(TRUE)

SpecUsers == Init /\ [][NextUsers]_vars

\* The tables table under create_table, update_table and delete_table.
TableInputs ==
    { [number |-> 5, capacity |-> 4, location |-> "hall", is_active |-> TRUE],
      [number |-> 1, capacity |-> 4, location |-> "hall", is_active |-> TRUE],
      [number |-> 0, capacity |-> 4, location |-> "hall", is_active |-> TRUE],
      [number |-> 5, capacity |-> 0, location |-> "hall", is_active |-> TRUE],
      [number |-> 5, capacity |-> 4, location |-> " ", is_active |-> TRUE] }

TableUpdates ==
    { [capacity |-> 0],
      [number |-> 2],
      [number |-> 0, location |-> ""],
      [is_active |-> FALSE],
      NoArgs }

NewTableIds == 1..MaxTables

NextTables ==
    \/ \E t \in TableInputs : CreateTable(t, NoFault)
    \/ \E id \in NewTableIds, args \in TableUpdates :
          UpdateTable(id, args, NoFault)
    \/ \E id \in NewTableIds : DeleteTable(id, NoFault)
    \/ Connect(TRUE)

\* The seed with table 3 deleted (connect, delete_table(3), disconnect).
InitTables ==
    /\ users = SeedUsers
    /\ tables = delete_table_row(SeedTables, 3)
    /\ bookings = EmptyStore
    /\ nextId = 1
    /\ nextUserId = 2
    /\ nextTableId = 4
    /\ driver = NoConnection
    /\ cli = NotRunning
    /\ connected = FALSE
    /\ now = 0
    /\ pc = [c \in Clients |-> "idle"]
    /\ pending = [c \in Clients |-> NoReq]
    /\ last = Last("none", 0, NoReq, 0, PENDING, NoFault, 0, <<>>, FALSE)

SpecTables == InitTables /\ [][NextTables]_vars

\* Entity objects and dicts, serialized and read back.
UserObjects ==
    { [id |-> i, name |-> n, phone |-> "555", created_at |-> 0] :
        i \in {None, 1}, n \in {"Ann", "Bob"} }

TableObjects ==
    { [id |-> i, number |-> 1, capacity |-> 4, location |-> "hall",
       is_active |-> a, created_at |-> 0] : i \in {None, 1}, a \in BOOLEAN }

\* Valid bookings, with and without the user and the table attached.
BookingObjects ==
    { [id |-> i, user_id |-> 1, table_id |-> 1, booking_date |-> 1,
       booking_time |-> HM(19, 0), duration_hours |-> dur, guests_count |-> 2,
       status |-> st, special_requests |-> sr, created_at |-> 0,
       updated_at |-> 0, user |-> u, table |-> t] :
        i \in {None, 1}, dur \in {1, 2}, st \in BookingStatus,
        sr \in {"", "window"},
        u \in {PyNone, [id |-> 1, name |-> "Ann", phone |-> "555",
                        created_at |-> 0]},
        t \in {PyNone, [id |-> 1, number |-> 1, capacity |-> 4,
                        location |-> "hall", is_active |-> TRUE,
                        created_at |-> 0]} }

FullBookingDict ==
    [id |-> 1, user_id |-> 1, table_id |-> 1, booking_date |-> isoformat(1),
     booking_time |-> isoformat(HM(19, 0)), duration_hours |-> 3,
     guests_count |-> 2, status |-> CONFIRMED, special_requests |-> "",
     created_at |-> isoformat(0), updated_at |-> isoformat(0)]

\* Booking dicts with the status recognized, unrecognized, empty or missing,
\* with and without duration_hours.
BookingDicts ==
    { without([FullBookingDict EXCEPT !.status = st], ks) :
        st \in BookingStatus \cup {"", "unknown"},
        ks \in SUBSET {"status", "duration_hours"} }

InitSerial ==
    /\ users = SeedUsers
    /\ tables = SeedTables
    /\ bookings = EmptyStore
    /\ nextId = 1
    /\ nextUserId = 2
    /\ nextTableId = 4
    /\ driver = NoConnection
    /\ cli = NotRunning
    /\ connected = FALSE
    /\ now = 0
    /\ \E cls \in Classes \cup {"Booking_dict"} :
          \E x \in CASE cls = "Booking" -> BookingObjects
                    [] cls = "User" -> UserObjects
                    [] cls = "Table" -> TableObjects
                    [] cls = "Booking_dict" -> BookingDicts :
              /\ pc = [c \in Clients |-> IF c = 1 THEN cls ELSE "idle"]
              /\ pending = [c \in Clients |-> IF c = 1 THEN x ELSE NoReq]
    /\ last = Last("none", 0, NoReq, 0, PENDING, NoFault, 0, <<>>, FALSE)

NextSerial ==
    \/ \E c \in Clients : ToDict(c)
    \/ \E c \in Clients : FromDict(c)

SpecSerial == InitSerial /\ [][NextSerial]_vars

\* Evening slots of day 1 that run to or past midnight, and early slots of
\* day 2, all on table 1.
NightRequests ==
    { Req(1, 1, 1, HM(23, 0), 2, 2),     \* day 1 23:00 - day 2 01:00
      Req(1, 1, 1, HM(22, 0), 2, 2),     \* day 1 22:00 - 24:00
      Req(1, 1, 2, HM(0, 30), 1, 2),     \* day 2 00:30 - 01:30
      Req(1, 1, 2, HM(1, 0), 1, 2) }     \* day 2 01:00 - 02:00

NextNight ==
    \/ \E r \in NightRequests : CreateBooking(r, NoFault)
    \/ \E id \in BookingIds, st \in BookingStatus :
          UpdateBookingStatus(id, st, NoFault)
    \/ \E id \in BookingIds : DeleteBooking(id, NoFault)
    \/ Connect(TRUE)

SpecNight == Init /\ [][NextNight]_vars

\* Bookings of table 1 while its seats and its activity are changed.
SeatRequests ==
    { Req(1, 1, 1, HM(19, 0), 2, 2),     \* 2 guests
      Req(1, 1, 2, HM(19, 0), 2, 4),     \* 4 guests, another date
      Req(1, 1, 1, HM(21, 0), 1, 5) }    \* more guests than the seed seats

SeatUpdates ==
    { [capacity |-> 1],
      [capacity |-> 5],
      [is_active |-> FALSE],
      [is_active |-> TRUE] }

NextSeats ==
    \/ \E r \in SeatRequests : CreateBooking(r, NoFault)
    \/ \E args \in SeatUpdates : UpdateTable(1, args, NoFault)
    \/ \E id \in BookingIds, st \in BookingStatus :
          UpdateBookingStatus(id, st, NoFault)
    \/ Connect(TRUE)

SpecSeats == Init /\ [][NextSeats]_vars

\* The CLI over a store that another client of the backend fills.
CliInputs ==
    [date : {1, None}, time : {HM(19, 0), None}, duration : {2},
     guests : {2, 3, 0, 9}, choice : {1, 2}, phone : {"", "555"},
     confirm : {"y", "n"}]

CliRequests ==
    { Req(1, 1, 1, HM(19, 0), 2, 2),
      Req(1, 2, 1, HM(20, 0), 2, 2) }

NextCLI ==
    \/ \E ok \in BOOLEAN : RunCLI(ok)
    \/ \E in \in CliInputs : BookTable(in)
    \/ \E phone \in {"", "555", "777"} : Login(phone)
    \/ \E raises \in BOOLEAN : Handle(raises)
    \/ \E way \in {"break", "SystemExit"} : LeaveMenu(way)
    \/ \E key \in {"Enter", "KeyboardInterrupt", "Exception"} : Pause(key)
    \/ Finally
    \/ \E r \in CliRequests : CreateBooking(r, NoFault)
    \/ \E id \in BookingIds : UpdateBookingStatus(id, CANCELLED, NoFault)

SpecCLI == Init /\ [][NextCLI]_vars

\* The interpreter runs the finally clause of run() once control reaches it.
SpecCLILive == SpecCLI /\ WF_vars(Finally)

\* Callers of the driver: transaction blocks and single statements on one
\* connection.
DriverRequests ==
    { Req(1, 1, 1, HM(19, 0), 2, 2),
      Req(1, 2, 1, HM(19, 0), 2, 2) }

NextDriver ==
    \/ \E ok \in BOOLEAN : Connect(ok)
    \/ Disconnect
    \/ \E body \in {"insert", "nothing"}, r \in DriverRequests,
          raises \in BOOLEAN : Transaction(body, r, raises)
    \/ \E r \in DriverRequests : ExecuteQuery(r)
    \/ \E id \in BookingIds : ExecuteUpdate(id)

SpecDriver == Init /\ [][NextDriver]_vars

\* Every operation of the backend, with and without a connection.
OfflineRequests == { Req(1, 1, 1, HM(19, 0), 2, 2) }

GetKeys(op) == IF op = "get_user_by_phone" THEN {"555", "777"} ELSE {1, 4}

NextOffline ==
    \/ \E ok \in BOOLEAN : Connect(ok)
    \/ Disconnect
    \/ \E r \in OfflineRequests : CreateBooking(r, NoFault)
    \/ \E r \in OfflineRequests : GetConflictingBookings(r, NoFault)
    \/ \E id \in BookingIds : UpdateBookingStatus(id, CONFIRMED, NoFault)
    \/ \E id \in BookingIds : DeleteBooking(id, NoFault)
    \/ CreateUser("Bob", "777", NoFault)
    \/ UpdateUser(1, [name |-> "Bob"], NoFault)
    \/ DeleteUser(2, NoFault)
    \/ CreateTable([number |-> 5, capacity |-> 4, location |-> "hall",
                    is_active |-> TRUE], NoFault)
    \/ UpdateTable(2, [capacity |-> 6], NoFault)
    \/ DeleteTable(3, NoFault)
    \/ \E op \in GetOne : \E key \in GetKeys(op) : GetRow(op, key)
    \/ \E op \in GetMany : \E key \in GetKeys(op) : GetList(op, key)
    \/ GetStatistics

SpecOffline == Init /\ [][NextOffline]_vars

\* Store calls that raise, connections that drop, on two overlapping slots.
FaultRequests == { Req(1, 1, 1, HM(19, 0), 2, 2), Req(1, 1, 1, HM(20, 30), 1, 2) }

Faults == {NoFault} \cup { {p} : p \in FaultPoints }

NextFault ==
    \/ \E r \in FaultRequests, f \in Faults : CreateBooking(r, f)
    \/ \E r \in FaultRequests, f \in Faults : GetConflictingBookings(r, f)
    \/ \E id \in BookingIds, st \in BookingStatus, f \in Faults :
          UpdateBookingStatus(id, st, f)
    \/ \E id \in BookingIds, f \in Faults : DeleteBooking(id, f)
    \/ \E ok \in BOOLEAN : Connect(ok)
    \/ Disconnect

SpecFault == Init /\ [][NextFault]_vars

\* Two clients whose create_booking calls interleave.
NextRace ==
    \/ \E c \in Clients, r \in Requests : CreateCheck(c, r)
    \/ \E c \in Clients : CreateInsert(c)
    \/ Connect(TRUE)

SpecRace == Init /\ [][NextRace]_vars

----------------------------------------------------------------------------
(* Vocabulary of the properties, from the data model of the design:        *)
(* activity, and overlap of the half-open intervals [start, start +        *)
(* duration) of two slots on the same table and date.                      *)

Active(b) == b.status = PENDING \/ b.status = CONFIRMED

Terminal(b) == b.status = CANCELLED \/ b.status = COMPLETED

SlotStart(b) == b.booking_time

SlotEnd(b) == b.booking_time + b.duration_hours * MinutesPerHour

SameTableAndDate(a, b) ==
    a.table_id = b.table_id /\ a.booking_date = b.booking_date

Overlap(a, b) ==
    /\ SameTableAndDate(a, b)
    /\ SlotStart(a) < SlotEnd(b)
    /\ SlotStart(b) < SlotEnd(a)

\* One slot starts at the minute the other ends.
Touching(a, b) ==
    /\ SameTableAndDate(a, b)
    /\ (SlotEnd(a) = SlotStart(b) \/ SlotEnd(b) = SlotStart(a))

\* The stored active bookings that overlap slot r.
ActiveOverlapping(store, r) ==
    { i \in DOMAIN store : Active(store[i]) /\ Overlap(store[i], r) }

DoubleBooked(store) ==
    \E i, j \in DOMAIN store :
        /\ i # j
        /\ Active(store[i])
        /\ Active(store[j])
        /\ Overlap(store[i], store[j])

\* Request r passes every check of create_booking other than the conflict
\* check: stored user, stored active table with enough seats, valid fields.
OtherChecksPass(r) ==
    /\ r.user_id \in DOMAIN users
    /\ r.table_id \in DOMAIN tables
    /\ tables[r.table_id].is_active
    /\ r.guests_count <= tables[r.table_id].capacity
    /\ r.user_id > 0 /\ r.table_id > 0
    /\ r.booking_date # None /\ r.booking_time # None
    /\ r.duration_hours > 0 /\ r.guests_count > 0

\* The step is a create_booking call that returned a new PENDING booking
\* holding the request, all other rows untouched.
Created(r) ==
    /\ last'.ret # 0
    /\ last'.ret \notin DOMAIN bookings
    /\ DOMAIN bookings' = DOMAIN bookings \cup {last'.ret}
    /\ \A i \in DOMAIN bookings : bookings'[i] = bookings[i]
    /\ bookings'[last'.ret].status = PENDING
    /\ SameTableAndDate(bookings'[last'.ret], r)
    /\ bookings'[last'.ret].booking_time = r.booking_time
    /\ bookings'[last'.ret].duration_hours = r.duration_hours

T1900 == Req(1, 1, 1, HM(19, 0), 2, 2)
T2030 == Req(1, 1, 1, HM(20, 30), 1, 2)
T2059 == Req(1, 1, 1, HM(20, 59), 2, 2)
T2100 == Req(1, 1, 1, HM(21, 0), 1, 2)

\* Stored booking i holds slot r.
Holds(store, i, r) ==
    /\ i \in DOMAIN store
    /\ SameTableAndDate(store[i], r)
    /\ store[i].booking_time = r.booking_time
    /\ store[i].duration_hours = r.duration_hours

----------------------------------------------------------------------------
(* Properties *)

\* C1: after any sequence of create_booking, update_booking_status and
\* delete_booking calls run one after the other, no two stored bookings on
\* the same table and date are both active with overlapping intervals.
C1_NoDoubleBooking == ~DoubleBooked(bookings)

\* C2: create_booking fails and inserts nothing whenever the store holds an
\* active booking on the same table and date that overlaps the request.
C2_ConflictRejected ==
    [][ (last'.op = "create_booking" /\ ActiveOverlapping(bookings, last'.req) # {})
          => (last'.ret = 0 /\ bookings' = bookings) ]_vars

\* C2 witness: CONFIRMED 19:00 for 2h is stored and the request 20:30 for 1h
\* has just been rejected.
C2_Witness ==
    /\ last.op = "create_booking"
    /\ last.req = T2030
    /\ last.ret = 0
    /\ \E i \in DOMAIN bookings :
          Holds(bookings, i, T1900) /\ bookings[i].status = CONFIRMED

\* C3: for a positive duration get_conflicting_bookings returns exactly the
\* stored bookings with that table and date, status PENDING or CONFIRMED, and
\* an interval overlapping the proposed one, each once.
C3_ExactConflictSet ==
    (last.op = "get_conflicting_bookings" /\ last.req.duration_hours > 0)
        => /\ Range(last.rows) = ActiveOverlapping(bookings, last.req)
           /\ Len(last.rows) = Cardinality(ActiveOverlapping(bookings, last.req))

\* C3 witness: 19:00-21:00 is stored and active, the query for 20:59-22:59
\* (one minute in common) returns it.
C3_Witness ==
    /\ last.op = "get_conflicting_bookings"
    /\ last.req = T2059
    /\ \E i \in Range(last.rows) :
          Holds(bookings, i, T1900) /\ Active(bookings[i])

\* C4: a proposed booking that starts at the minute an active booking on the
\* same table and date ends, or ends at the minute it starts, is not returned
\* as a conflict, and create_booking for it succeeds when the backend is
\* connected, the other checks pass and no other active booking overlaps it.
C4_TouchingAccepted ==
    /\ [](  (last.op = "get_conflicting_bookings" /\ last.req.duration_hours > 0)
            => \A i \in Range(last.rows) : ~Touching(bookings[i], last.req) )
    /\ [][ ( /\ last'.op = "create_booking"
             /\ connected
             /\ OtherChecksPass(last'.req)
             /\ \E i \in DOMAIN bookings :
                   Active(bookings[i]) /\ Touching(bookings[i], last'.req)
             /\ ActiveOverlapping(bookings, last'.req) = {} )
           => Created(last'.req) ]_vars

\* C4 witness: 19:00-21:00 is stored and active, and create_booking for
\* 21:00-22:00 on the same table and date has just succeeded.
C4_Witness ==
    /\ last.op = "create_booking"
    /\ last.req = T2100
    /\ last.ret # 0
    /\ \E i \in DOMAIN bookings :
          i # last.ret /\ Holds(bookings, i, T1900) /\ Active(bookings[i])

\* C5: a stored booking whose status is CANCELLED or COMPLETED is never in
\* the result of get_conflicting_bookings, and create_booking is not rejected
\* when every stored booking that overlaps the request is CANCELLED or
\* COMPLETED (backend connected, other checks passing).
C5_InactiveNeverConflicts ==
    /\ [](  last.op = "get_conflicting_bookings"
            => \A i \in Range(last.rows) : ~Terminal(bookings[i]) )
    /\ [][ ( /\ last'.op = "create_booking"
             /\ connected
             /\ OtherChecksPass(last'.req)
             /\ \A i \in DOMAIN bookings :
                   Overlap(bookings[i], last'.req) => Terminal(bookings[i]) )
           => Created(last'.req) ]_vars

\* C5 witness: a CANCELLED booking overlaps the request and create_booking
\* has just succeeded.
C5_Witness ==
    /\ last.op = "create_booking"
    /\ last.ret # 0
    /\ \E i \in DOMAIN bookings :
          /\ i # last.ret
          /\ bookings[i].status = CANCELLED
          /\ Overlap(bookings[i], last.req)

\* C6: when two create_booking calls for overlapping slots on the same table
\* and date both run the conflict query before either runs the INSERT, both
\* succeed and the store holds two active overlapping bookings.  (State
\* before the step: client c has just inserted while client d, holding an
\* overlapping request, is past its conflict query; the step is d's INSERT.)
C6_RaceDoubleBooks ==
    /\ [][ \A d \in Clients :
              (pc[d] = "checked" /\ pc'[d] = "idle")
              => ( /\ last'.op = "create_booking" /\ last'.client = d
                   /\ last'.ret # 0
                   /\ Holds(bookings', last'.ret, pending[d])
                   /\ Active(bookings'[last'.ret])
                   /\ \A i \in DOMAIN bookings :
                         i \in DOMAIN bookings' /\ bookings'[i] = bookings[i] ) ]_vars
    /\ [][ \A c, d \in Clients :
              ( /\ c # d
                /\ last.op = "create_booking" /\ last.client = c /\ last.ret # 0
                /\ pc[d] = "checked"
                /\ Overlap(pending[d], last.req)
                /\ pc'[d] = "idle" )
              => ( /\ last'.ret # 0
                   /\ last'.ret # last.ret
                   /\ Active(bookings'[last'.ret])
                   /\ Active(bookings'[last.ret])
                   /\ Overlap(bookings'[last.ret], bookings'[last'.ret]) ) ]_vars

\* C6 witness: both clients' calls have returned a booking and the two
\* bookings are active and overlap.
C6_Witness ==
    /\ last.op = "create_booking"
    /\ last.ret # 0
    /\ \A c \in Clients : pc[c] = "idle"
    /\ \E i \in DOMAIN bookings :
          /\ i # last.ret
          /\ Active(bookings[i]) /\ Active(bookings[last.ret])
          /\ Overlap(bookings[i], bookings[last.ret])

\* C7: update_booking_status(id, CANCELLED) on a booking that is CANCELLED or
\* COMPLETED fails and leaves its status and updated_at as they were; on a
\* booking that is PENDING or CONFIRMED (backend connected) it succeeds and
\* the status becomes CANCELLED.
C7_CancelGuard ==
    [][ ( /\ last'.op = "update_booking_status"
          /\ last'.status = CANCELLED
          /\ last'.id \in DOMAIN bookings )
        => IF Terminal(bookings[last'.id])
           THEN /\ last'.ret = 0
                /\ last'.id \in DOMAIN bookings'
                /\ bookings'[last'.id].status = bookings[last'.id].status
                /\ bookings'[last'.id].updated_at = bookings[last'.id].updated_at
           ELSE connected
                => /\ last'.ret = last'.id
                   /\ last'.id \in DOMAIN bookings'
                   /\ bookings'[last'.id].status = CANCELLED ]_vars

\* C7 witness: cancelling a COMPLETED booking has just failed, at a time
\* later than the booking's updated_at.
C7_Witness ==
    /\ last.op = "update_booking_status"
    /\ last.status = CANCELLED
    /\ last.ret = 0
    /\ connected
    /\ last.id \in DOMAIN bookings
    /\ bookings[last.id].status = COMPLETED
    /\ bookings[last.id].updated_at < now

\* C8: CANCELLED and COMPLETED are terminal: once a stored booking has one of
\* them, no later update_booking_status call changes its status.
C8_TerminalStays ==
    [][ \A i \in DOMAIN bookings :
          (Terminal(bookings[i]) /\ last'.op = "update_booking_status")
          => (i \in DOMAIN bookings'
              /\ bookings'[i].status = bookings[i].status) ]_vars

\* C9: update_booking_status with target CONFIRMED, COMPLETED or PENDING
\* succeeds for an existing booking whatever its current status (backend
\* connected): no transition guard, no conflict check.
C9_UnguardedTargets ==
    [][ ( /\ last'.op = "update_booking_status"
          /\ last'.status \in {CONFIRMED, COMPLETED, PENDING}
          /\ last'.id \in DOMAIN bookings
          /\ connected )
        => ( /\ last'.ret = last'.id
             /\ last'.id \in DOMAIN bookings'
             /\ bookings'[last'.id].status = last'.status ) ]_vars

\* C9 witness: a booking has just been CONFIRMED although another active
\* booking overlaps it.
C9_Witness ==
    /\ last.op = "update_booking_status"
    /\ last.status = CONFIRMED
    /\ last.ret # 0
    /\ last.id \in DOMAIN bookings
    /\ \E j \in DOMAIN bookings :
          /\ j # last.id
          /\ Active(bookings[j])
          /\ Overlap(bookings[j], bookings[last.id])

\* C10: whenever get_conflicting_bookings returns an empty list for a slot of
\* positive duration, the store holds no active booking on that table and
\* date overlapping the slot, whatever the outcome of the store query.
C10_EmptyMeansFree ==
    ( /\ last.op = "get_conflicting_bookings"
      /\ last.req.duration_hours > 0
      /\ last.rows = <<>> )
    => ActiveOverlapping(bookings, last.req) = {}

\* C11: a create_booking whose guests_count exceeds the capacity of the
\* stored table it names returns None, leaves the bookings as they were and
\* never issues the conflict query.
C11_OverCapacityRejected ==
    [][ (/\ last'.op = "create_booking"
         /\ last'.req.table_id \in DOMAIN tables
         /\ last'.req.guests_count > tables[last'.req.table_id].capacity)
          => (/\ last'.ret = 0
              /\ bookings' = bookings
              /\ nextId' = nextId
              /\ "get_conflicting_bookings" \notin Range(last'.queries)) ]_vars

\* C11 witness: five guests for the four seats of table 1, on an empty store
\* with the connection up; the call returned None after reading the user and
\* the table only.
C11_Witness ==
    /\ last.op = "create_booking"
    /\ last.connected
    /\ last.req = Req(1, 1, 1, HM(19, 0), 2, 5)
    /\ last.ret = 0
    /\ last.queries = <<"get_user", "get_table">>
    /\ bookings = EmptyStore

\* C12: a create_booking that names a stored table whose is_active is false
\* returns None and leaves the bookings as they were, whatever guests_count
\* is, at or under the capacity as well as over it.
C12_InactiveTableRejected ==
    [][ (/\ last'.op = "create_booking"
         /\ last'.req.table_id \in DOMAIN tables
         /\ ~tables[last'.req.table_id].is_active)
          => (/\ last'.ret = 0
              /\ bookings' = bookings
              /\ nextId' = nextId) ]_vars

\* C12 witness: two guests for the four seats of the inactive table 3, every
\* other field in order, on an empty store with the connection up; the call
\* returned None.
C12_Witness ==
    /\ last.op = "create_booking"
    /\ last.connected
    /\ last.req = Req(1, 3, 1, HM(19, 0), 2, 2)
    /\ last.req.guests_count <= tables[3].capacity
    /\ ~tables[3].is_active
    /\ last.ret = 0
    /\ bookings = EmptyStore

\* C13: a create_booking whose user id or table id is not stored returns None
\* and leaves the bookings as they were.  With the connection up, an absent
\* user ends the call after the user lookup alone, whatever the table and the
\* other fields are; an absent table (the user being stored) ends it after
\* the user and table lookups, whatever guests_count and the other fields
\* are: no capacity, validity or conflict check is reached.
C13_UnresolvedRejected ==
    [][ (/\ last'.op = "create_booking"
         /\ (last'.req.user_id \notin DOMAIN users
               \/ last'.req.table_id \notin DOMAIN tables))
          => (/\ last'.ret = 0
              /\ bookings' = bookings
              /\ nextId' = nextId
              /\ (last'.connected /\ last'.req.user_id \notin DOMAIN users)
                    => (/\ last'.why = "user_not_found"
                        /\ last'.queries = <<"get_user">>)
              /\ (last'.connected /\ last'.req.user_id \in DOMAIN users)
                    => (/\ last'.why = "table_not_found"
                        /\ last'.queries = <<"get_user", "get_table">>)) ]_vars

\* C13 witness: user 2 and table 4 are both absent and the other fields are
\* out of range as well; the call returned None after the user lookup alone.
C13_Witness ==
    /\ last.op = "create_booking"
    /\ last.connected
    /\ last.req = Req(2, 4, 1, HM(19, 0), 0, 9)
    /\ last.req.user_id \notin DOMAIN users
    /\ last.req.table_id \notin DOMAIN tables
    /\ last.ret = 0
    /\ last.queries = <<"get_user">>

\* The validity predicate of a booking.
ValidBooking(b) ==
    /\ b.user_id > 0
    /\ b.table_id > 0
    /\ b.booking_date # None
    /\ b.booking_time # None
    /\ b.duration_hours > 0
    /\ b.guests_count > 0

\* C14: after any sequence of create_booking, update_booking_status and
\* delete_booking calls every stored booking satisfies the validity predicate
\* (user_id > 0, table_id > 0, date and time set, duration_hours > 0,
\* guests_count > 0), and a create_booking with an invalid candidate has
\* returned None without issuing the conflict query or the INSERT.
C14_StoredBookingsValid ==
    /\ \A i \in DOMAIN bookings : ValidBooking(bookings[i])
    /\ (last.op = "create_booking" /\ ~ValidBooking(last.req))
          => (/\ last.ret = 0
              /\ "get_conflicting_bookings" \notin Range(last.queries)
              /\ "insert" \notin Range(last.queries))

\* C14 witness: a zero-duration candidate that passes every earlier check
\* (stored user, active table with enough seats) on a free slot has been
\* rejected after the two lookups, the store holding a booking whose status
\* an update has moved to CANCELLED.
C14_Witness ==
    /\ last.op = "create_booking"
    /\ last.connected
    /\ last.req = Req(1, 1, 1, HM(19, 0), 0, 2)
    /\ last.ret = 0
    /\ last.queries = <<"get_user", "get_table">>
    /\ DOMAIN bookings = {1}
    /\ bookings[1].status = CANCELLED

\* C15: a create_booking that returns a booking has added exactly one row,
\* under a new id, with status PENDING and the user, table, date, time,
\* duration and guests of its arguments, and has changed no other booking, no
\* user and no table; a create_booking that returns None has changed no
\* booking, user or table.
C15_CreateFrame ==
    [][ last'.op = "create_booking"
          => /\ users' = users
             /\ tables' = tables
             /\ IF last'.ret # 0
                THEN /\ last'.ret \notin DOMAIN bookings
                     /\ DOMAIN bookings' = DOMAIN bookings \cup {last'.ret}
                     /\ \A i \in DOMAIN bookings : bookings'[i] = bookings[i]
                     /\ bookings'[last'.ret].status = PENDING
                     /\ bookings'[last'.ret].user_id = last'.req.user_id
                     /\ bookings'[last'.ret].table_id = last'.req.table_id
                     /\ bookings'[last'.ret].booking_date = last'.req.booking_date
                     /\ bookings'[last'.ret].booking_time = last'.req.booking_time
                     /\ bookings'[last'.ret].duration_hours
                           = last'.req.duration_hours
                     /\ bookings'[last'.ret].guests_count
                           = last'.req.guests_count
                ELSE bookings' = bookings ]_vars

\* C15 witness: the store held one COMPLETED booking of table 1 at 19:00, and
\* the create_booking for table 2 has returned booking 2.
C15_Witness ==
    /\ last.op = "create_booking"
    /\ last.req = Req(1, 2, 1, HM(19, 0), 2, 2)
    /\ last.ret = 2
    /\ DOMAIN bookings = {1, 2}
    /\ bookings[1].table_id = 1
    /\ bookings[1].status = COMPLETED
    /\ bookings[2].table_id = 2
    /\ bookings[2].status = PENDING

\* The call returned the failure value of create_booking or
\* update_booking_status.
FailedCall(l) ==
    /\ l.op \in {"create_booking", "update_booking_status"}
    /\ l.ret = 0

\* The failure kind of the branch a call returned from.
FailureKind(why) ==
    CASE why \in {"user_not_found", "table_not_found", "booking_not_found"}
           -> "NotFound"
      [] why = "cannot_accommodate" -> "CapacityExceeded"
      [] why = "table_inactive" -> "TableInactive"
      [] why = "invalid" -> "InvalidInput"
      [] why = "conflict" -> "SlotConflict"
      [] why = "cannot_be_cancelled" -> "IllegalTransition"
      [] OTHER -> "StoreUnavailable"

\* C16: a failed create_booking or update_booking_status returns a result
\* that identifies the failure kind: two calls, one after the other, that
\* fail with different kinds (NotFound, CapacityExceeded, TableInactive,
\* InvalidInput, SlotConflict, IllegalTransition) return different results.
C16_FailureKindReturned ==
    [][ (/\ FailedCall(last)
         /\ FailedCall(last')
         /\ FailureKind(last.why) # FailureKind(last'.why))
          => <<last.ret, last.rows>> # <<last'.ret, last'.rows>> ]_vars

\* C17: an update_booking_status that returns a booking has changed only the
\* status and updated_at of the booking it names: that booking's user, table,
\* date, time, duration, guests, special requests and created_at, and every
\* other booking, are as before, and its updated_at is not earlier than
\* before.
C17_UpdateFrame ==
    [][ (last'.op = "update_booking_status" /\ last'.ret # 0)
          => (/\ last'.ret = last'.id
              /\ last'.id \in DOMAIN bookings
              /\ DOMAIN bookings' = DOMAIN bookings
              /\ \A i \in DOMAIN bookings \ {last'.id} :
                    bookings'[i] = bookings[i]
              /\ bookings'[last'.id].user_id = bookings[last'.id].user_id
              /\ bookings'[last'.id].table_id = bookings[last'.id].table_id
              /\ bookings'[last'.id].booking_date
                    = bookings[last'.id].booking_date
              /\ bookings'[last'.id].booking_time
                    = bookings[last'.id].booking_time
              /\ bookings'[last'.id].duration_hours
                    = bookings[last'.id].duration_hours
              /\ bookings'[last'.id].guests_count
                    = bookings[last'.id].guests_count
              /\ bookings'[last'.id].special_requests
                    = bookings[last'.id].special_requests
              /\ bookings'[last'.id].created_at = bookings[last'.id].created_at
              /\ bookings'[last'.id].status = last'.status
              /\ bookings'[last'.id].updated_at
                    >= bookings[last'.id].updated_at) ]_vars

\* C17 witness: booking 2, created at clock 0 with special requests, has been
\* moved to CONFIRMED at a later clock reading, booking 1 being stored too.
C17_Witness ==
    /\ last.op = "update_booking_status"
    /\ last.id = 2
    /\ last.ret = 2
    /\ DOMAIN bookings = {1, 2}
    /\ bookings[2].status = CONFIRMED
    /\ bookings[2].special_requests = "window"
    /\ bookings[2].created_at = 0
    /\ bookings[2].updated_at > bookings[2].created_at

\* C18: update_booking_status on an id that is not in the store returns None
\* and leaves the store as it was.
C18_UpdateAbsent ==
    [][ (last'.op = "update_booking_status" /\ last'.id \notin DOMAIN bookings)
          => (/\ last'.ret = 0
              /\ bookings' = bookings
              /\ users' = users
              /\ tables' = tables) ]_vars

\* C18 witness: with the connection up and booking 1 stored, the update of
\* booking 2, which is not stored, has returned None at the lookup.
C18_Witness ==
    /\ last.op = "update_booking_status"
    /\ last.connected
    /\ last.id = 2
    /\ last.status = CONFIRMED
    /\ last.ret = 0
    /\ last.why = "booking_not_found"
    /\ DOMAIN bookings = {1}

\* C19: with the connection up, delete_booking on a stored id returns True,
\* after which get_booking does not find the id and neither get_all_bookings
\* nor get_conflicting_bookings (for any slot) lists it, while every other
\* booking is as before; on an id that is not stored it returns False and
\* leaves the store as it was.
C19_DeleteBooking ==
    [][ (last'.op = "delete_booking" /\ last'.connected)
          => IF last'.id \in DOMAIN bookings
             THEN /\ last'.ret = 1
                  /\ ~get_booking(bookings', last'.id)
                  /\ \A rows \in get_all_bookings(bookings', TRUE, FALSE) :
                        last'.id \notin Range(rows)
                  /\ \A r \in Slots :
                        \A rows \in get_conflicting_bookings(bookings', TRUE,
                                                            FALSE, r) :
                            last'.id \notin Range(rows)
                  /\ DOMAIN bookings' = DOMAIN bookings \ {last'.id}
                  /\ \A i \in DOMAIN bookings' : bookings'[i] = bookings[i]
             ELSE /\ last'.ret = 0
                  /\ bookings' = bookings ]_vars

\* C19 witness: of two stored bookings the PENDING booking 1 has been deleted;
\* booking 2 is still stored.
C19_Witness ==
    /\ last.op = "delete_booking"
    /\ last.connected
    /\ last.id = 1
    /\ last.ret = 1
    /\ DOMAIN bookings = {2}
    /\ bookings[2].status = PENDING

\* C20: in every state each stored booking's user_id is a stored user and
\* its table_id a stored table; after a delete_user or delete_table that
\* returned True the deleted id is stored no more and no stored booking
\* references it.
C20_ReferentialIntegrity ==
    /\ \A i \in DOMAIN bookings :
          /\ bookings[i].user_id \in DOMAIN users
          /\ bookings[i].table_id \in DOMAIN tables
    /\ (last.op = "delete_user" /\ last.ret = 1)
          => (/\ last.id \notin DOMAIN users
              /\ \A i \in DOMAIN bookings : bookings[i].user_id # last.id)
    /\ (last.op = "delete_table" /\ last.ret = 1)
          => (/\ last.id \notin DOMAIN tables
              /\ \A i \in DOMAIN bookings : bookings[i].table_id # last.id)

\* C20 witness: two bookings of user 1 were created, on tables 1 and 2 (no
\* booking is ever deleted on its own here, and no table has been deleted);
\* delete_user(1) has returned True and no booking is left.
C20_Witness ==
    /\ last.op = "delete_user"
    /\ last.id = 1
    /\ last.ret = 1
    /\ nextId = 3
    /\ DOMAIN tables = {1, 2, 3}
    /\ DOMAIN users = {}
    /\ bookings = EmptyStore

\* C21: after any sequence of create_user, update_user and delete_user calls
\* every stored user has a non-empty name and a non-empty phone, and no two
\* stored users share a phone.
C21_UsersValidAndUnique ==
    /\ \A u \in DOMAIN users : users[u].name # "" /\ users[u].phone # ""
    /\ \A u, v \in DOMAIN users : u # v => users[u].phone # users[v].phone

\* C22: after any sequence of create_table, update_table and delete_table
\* calls every stored table has number > 0, capacity > 0 and a non-empty
\* location, and no two stored tables share a number.
C22_TablesValidAndUnique ==
    /\ \A t \in DOMAIN tables :
          /\ tables[t].number > 0
          /\ tables[t].capacity > 0
          /\ tables[t].location # ""
    /\ \A t, u \in DOMAIN tables : t # u => tables[t].number # tables[u].number

\* The store that holds slot r alone, as booking 1 with status st.
StoreHolding(r, st) ==
    [i \in {1} |-> [new_row(r, 0) EXCEPT !.status = st]]

\* C23: for two active bookings A and B on the same table and date, the
\* conflict query built from A's slot against a store holding B alone is
\* non-empty iff the query built from B's slot against a store holding A
\* alone is non-empty, iff the half-open intervals of A and B overlap.  (A is
\* the slot of the query that has just returned, B the stored booking.)
C23_ConflictSymmetric ==
    ( /\ last.op = "get_conflicting_bookings"
      /\ last.connected
      /\ ValidBooking(last.req)
      /\ DOMAIN bookings = {1}
      /\ Active(bookings[1])
      /\ SameTableAndDate(bookings[1], last.req) )
      => /\ (last.rows # <<>>) <=> Overlap(last.req, bookings[1])
         /\ \A st \in {PENDING, CONFIRMED} :
               \A rows \in get_conflicting_bookings(
                                StoreHolding(last.req, st), TRUE, FALSE,
                                bookings[1]) :
                   (rows # <<>>) <=> (last.rows # <<>>)

\* C23 witness: B is the PENDING 19:00-21:00 and A the slot 20:59-22:59; the
\* query from A found B.
C23_Witness ==
    /\ last.op = "get_conflicting_bookings"
    /\ last.req = T2059
    /\ last.rows = <<1>>
    /\ DOMAIN bookings = {1}
    /\ Holds(bookings, 1, T1900)
    /\ bookings[1].status = PENDING

\* C24: for every valid Booking, User and Table x, from_dict(to_dict(x))
\* equals x on every field, the attached user and table of a Booking
\* included.
C24_RoundTrip ==
    [][ (/\ last.op = "to_dict"
         /\ last'.op = "from_dict"
         /\ last'.client = last.client
         /\ last'.req = last.rows[1])
          => last'.rows[1] = last.req ]_vars

\* C25: Booking.from_dict never fails on the status: a missing, empty or
\* unrecognized status value yields PENDING, a recognized value yields that
\* status; a missing duration_hours yields 2, a given one is kept.
C25_FromDictDefaults ==
    (last.op = "from_dict" /\ pc[last.client] = "Booking")
      => /\ last.rows[1].status \in BookingStatus
         /\ last.rows[1].status
               = (IF "status" \in DOMAIN last.req
                     /\ last.req.status \in BookingStatus
                  THEN last.req.status
                  ELSE PENDING)
         /\ last.rows[1].duration_hours
               = (IF "duration_hours" \in DOMAIN last.req
                  THEN last.req.duration_hours
                  ELSE 2)

\* C25 witness: a dict with the status "unknown" and no duration_hours has
\* been read as a PENDING booking of 2 hours.
C25_Witness ==
    /\ last.op = "from_dict"
    /\ pc[last.client] = "Booking"
    /\ "status" \in DOMAIN last.req
    /\ last.req.status = "unknown"
    /\ "duration_hours" \notin DOMAIN last.req
    /\ last.rows[1].status = PENDING
    /\ last.rows[1].duration_hours = 2

\* C26: a create_booking with duration_hours zero or negative returns None
\* without issuing the conflict query: every create_booking that issued the
\* conflict query had a duration above zero.
C26_NoConflictQueryWithoutDuration ==
    last.op = "create_booking"
      => /\ last.req.duration_hours <= 0
              => (/\ last.ret = 0
                  /\ "get_conflicting_bookings" \notin Range(last.queries))
         /\ "get_conflicting_bookings" \in Range(last.queries)
              => last.req.duration_hours > 0

\* C26 witness: a negative duration on a free slot, every other check
\* passing; the call returned None at the validity predicate, after the two
\* lookups.
C26_Witness ==
    /\ last.op = "create_booking"
    /\ last.connected
    /\ last.req = Req(1, 1, 1, HM(19, 0), -1, 2)
    /\ last.ret = 0
    /\ last.why = "invalid"
    /\ last.queries = <<"get_user", "get_table">>
    /\ bookings = EmptyStore

\* C27: the list get_conflicting_bookings returns is in ascending order of
\* booking_time, lists no booking twice, and holds only rows of the retrieval
\* (active rows of the table and date of the query).
C27_ConflictsOrdered ==
    (last.op = "get_conflicting_bookings" /\ last.connected)
      => /\ \A i, j \in DOMAIN last.rows :
               i < j => /\ last.rows[i] # last.rows[j]
                        /\ bookings[last.rows[i]].booking_time
                              <= bookings[last.rows[j]].booking_time
         /\ \A i \in DOMAIN last.rows :
               /\ last.rows[i] \in DOMAIN bookings
               /\ Active(bookings[last.rows[i]])
               /\ SameTableAndDate(bookings[last.rows[i]], last.req)

\* C27 witness: booking 1 is 20:30-21:30 and booking 2 is 19:00-21:00, both
\* active; the query for 20:59-22:59 returned booking 2 before booking 1.
C27_Witness ==
    /\ last.op = "get_conflicting_bookings"
    /\ last.req = T2059
    /\ last.rows = <<2, 1>>
    /\ Holds(bookings, 1, T2030)
    /\ Holds(bookings, 2, T1900)

\* The store raised during the call that has just returned: the call was made
\* on a connected backend and reached a statement that raises.
StoreRaised ==
    /\ last'.connected
    /\ \/ /\ last'.op = "create_booking"
          /\ \/ "lookup" \in last'.faults
             \/ /\ "conflicts" \in last'.faults
                /\ "get_conflicting_bookings" \in Range(last'.queries)
             \/ /\ "write" \in last'.faults
                /\ "insert" \in Range(last'.queries)
       \/ /\ last'.op = "get_conflicting_bookings"
          /\ "conflicts" \in last'.faults
       \/ /\ last'.op = "update_booking_status"
          /\ \/ "lookup" \in last'.faults
             \/ "write" \in last'.faults /\ last'.why = "store_error"
       \/ /\ last'.op = "delete_booking"
          /\ \/ "lookup" \in last'.faults
             \/ "write" \in last'.faults /\ last'.id \in DOMAIN bookings

\* The call that has just returned gave its failure value: None or False,
\* and [] for a list.
ReturnedFailure == last'.ret = 0 /\ last'.rows = <<>>

\* C28: when the store raises at any step of a create, get, update or delete
\* operation, the operation returns its failure value and leaves users, tables
\* and bookings as they were.
C28_StoreErrorsFail ==
    [][StoreRaised => /\ ReturnedFailure
                      /\ bookings' = bookings
                      /\ users' = users
                      /\ tables' = tables]_vars

\* The minutes a booking occupies, counted from midnight of day 0.
RealStart(b) == b.booking_date * MinutesPerDay + b.booking_time

RealEnd(b) == RealStart(b) + b.duration_hours * MinutesPerHour

RealOverlap(a, b) ==
    /\ a.table_id = b.table_id
    /\ RealStart(a) < RealEnd(b)
    /\ RealStart(b) < RealEnd(a)

\* C29: no two active bookings of one table overlap in real time, whatever
\* their dates: a booking that runs past midnight keeps a create_booking for
\* the next day that starts before its end out of the store.
C29_NoOverlapAcrossDates ==
    \A i, j \in DOMAIN bookings :
        (i # j /\ Active(bookings[i]) /\ Active(bookings[j]))
          => ~RealOverlap(bookings[i], bookings[j])

\* The call that returned before this step took a booking out of the active
\* ones: a status update to 'cancelled' or 'completed', or a delete, that
\* succeeded.
Deactivated ==
    \/ /\ last.op = "update_booking_status"
       /\ last.ret # 0
       /\ last.status \in {CANCELLED, COMPLETED}
    \/ /\ last.op = "delete_booking"
       /\ last.ret # 0

\* C30: when no booking other than the one just cancelled, completed or
\* deleted is active and overlaps a slot, the create_booking that follows for
\* that slot (stored user, active table with enough seats, valid fields,
\* connected backend) returns a new PENDING booking.
C30_SlotReleased ==
    [][(/\ Deactivated
        /\ last'.op = "create_booking"
        /\ last'.connected
        /\ OtherChecksPass(last'.req)
        /\ ActiveOverlapping(bookings, last'.req) \subseteq {last.id})
         => Created(last'.req)]_vars

\* C30 witness: booking 1 (day 1, 23:00, 2 h) is cancelled and booking 2, the
\* overlapping slot 22:00-24:00 of the same table and day, has been created.
C30_Witness ==
    /\ last.op = "create_booking"
    /\ last.ret = 2
    /\ Holds(bookings, 1, Req(1, 1, 1, HM(23, 0), 2, 2))
    /\ bookings[1].status = CANCELLED
    /\ Holds(bookings, 2, Req(1, 1, 1, HM(22, 0), 2, 2))
    /\ Active(bookings[2])

\* C31: every active stored booking has no more guests than its table has
\* seats now, and its table is active.
C31_ActiveBookingsFitTable ==
    \A i \in DOMAIN bookings :
        Active(bookings[i])
          => /\ bookings[i].table_id \in DOMAIN tables
             /\ bookings[i].guests_count
                   <= tables[bookings[i].table_id].capacity
             /\ tables[bookings[i].table_id].is_active

\* C32: in the booking flow of menu option 2, when the date, time, duration
\* and guest count typed are valid, the table chosen from the list has no
\* conflicting booking, a user is logged in (or logs in) and the booking is
\* confirmed, the flow calls backend.create_booking for that table and slot.
C32_BookingFlowReachesCreate ==
    [][(/\ last'.op = "book_table"
        /\ last'.req.booking_date # None
        /\ last'.req.booking_time # None
        /\ last'.req.duration_hours > 0
        /\ last'.req.guests_count > 0
        /\ last'.req.table_id \in DOMAIN tables
        /\ tables[last'.req.table_id].is_active
        /\ last'.req.guests_count <= tables[last'.req.table_id].capacity
        /\ ActiveOverlapping(bookings, last'.req) = {}
        /\ last'.req.user_id # 0
        /\ last'.req.confirm = "y")
         => /\ "create_booking" \in Range(last'.queries)
            /\ Created(last'.req)]_vars

\* C33: once a transaction() block has exited, by commit or by rollback, the
\* connection is in autocommit mode again, and a write that execute_query has
\* made outside a transaction block is committed.
C33_AutocommitRestored ==
    /\ (last.op = "transaction" /\ last.connected) => driver.autocommit
    /\ (last.op = "execute_query" /\ last.ret # 0)
          => last.ret \notin driver.uncommitted

Writes ==
    {"create_user", "update_user", "delete_user", "create_table",
     "update_table", "delete_table", "create_booking",
     "update_booking_status", "delete_booking"}

Reads ==
    GetOne \cup GetMany \cup {"get_conflicting_bookings",
                              "get_booking_statistics"}

LeftLoop == cli.pc \in {"finally", "exited"}

\* C35: once run() has connected and then left the menu loop, by choice 0, by
\* an exception of a handler, or by Ctrl-C inside or outside get_user_choice,
\* backend.disconnect() is eventually called.
C35_DisconnectOnLeave == LeftLoop ~> (cli.disconnects > 0)

\* C35 witness: the loop was left by Ctrl-C inside get_user_choice
\* (sys.exit(0)), and disconnect() has been called.
C35_Witness ==
    /\ cli.pc = "exited"
    /\ cli.left_by = "SystemExit"
    /\ cli.disconnects = 1
    /\ last.op = "disconnect"
    /\ last.connected
    /\ ~connected

\* C36: a slot of duration 0 passed to get_conflicting_bookings is an empty
\* interval: its end is its start plus duration_hours, as for every other
\* duration, and the result is exactly the active bookings on that table and
\* date that overlap the interval so computed.
C36_ZeroDurationIsEmpty ==
    (last.op = "get_conflicting_bookings" /\ last.req.duration_hours = 0
        /\ last.req.booking_date # None)
        => Range(last.rows) = ActiveOverlapping(bookings, last.req)

====
